---- MODULE Spec2Model ----
(***************************************************************************)
(* Model of the pixel-match comparison engine: the colour metric, the      *)
(* anti-aliasing classifier, the shift search, the sequential engine       *)
(* (browser pixelmatch), the asynchronous dispatcher (node pixelmatch) and *)
(* its band workers.                                                       *)
(*                                                                         *)
(* Representation.  An image is a record [kind, len, px]: kind is "u8" for *)
(* a 1-byte-per-element typed array and "array" for anything else, len is  *)
(* its length in bytes and px maps a pixel index 0..(len \div 4)-1 to the  *)
(* pixel <<r, g, b, a>>.  The packed Uint32 view a32[i] of the code is     *)
(* px[i]; two packed values are equal iff the tuples are equal.            *)
(*                                                                         *)
(* Arithmetic.  The code computes in IEEE doubles; the model computes in   *)
(* fixed point.  Channel differences and Y/I/Q are carried in hundredths,  *)
(* colorDelta(.., FALSE) and maxDelta in ten-thousandths, percentages      *)
(* (threshold, alpha) in hundredths.  SDiv truncates towards zero so that  *)
(* negating the operands negates the result, as it does for doubles.       *)
(***************************************************************************)
EXTENDS Integers, Sequences, FiniteSets, TLC

\* ------------------------------------------------------------------ bounds
MaxW == 2
MaxH == 2
MaxCpus == 3
EdgeW == 3
EdgeH == 2
MaxShift == 1
\* channel values of the opaque colours: Level(0) .. Level(NumLevels)
NumLevels == 3

\* --------------------------------------------------------------- constants
Absent == -1
Infinity == 2000000000
LargeImagePixels == 1000000
MaxYIQ == 35215
DefaultThreshold == 10
DefaultAlpha == 10
\* the running minima of findBestMatchingPixel in src/index.ts start at 9999
InitialMinimum == 9999

NoOutput == [kind |-> "null", len |-> 0, px |-> <<>>]

\* ----------------------------------------------------------------- helpers
Abs(v) == IF v < 0 THEN -v ELSE v

SDiv(a, b) == IF a >= 0 THEN a \div b ELSE -((-a) \div b)

Min2(a, b) == IF a < b THEN a ELSE b

Max2(a, b) == IF a > b THEN a ELSE b

\* ceil(a / b) for a >= 0, b > 0
CeilDiv(a, b) == (a + b - 1) \div b

\* --------------------------------------------------------------- utils.ts
isPixelData(arr) == arr.kind = "u8"

\* mutant: delta = y * y + i * i + q * q
YiqDistance_Unweighted(y, i, q) ==
    10000 * ((y * y) \div 10000) + 10000 * ((i * i) \div 10000)
    + 10000 * ((q * q) \div 10000)

\* the weighted sum of squares of Y, I, Q (hundredths in, ten-thousandths out)
YiqDistance(y, i, q) ==
    5053 * ((y * y) \div 10000) + 2990 * ((i * i) \div 10000)
    + 1957 * ((q * q) \div 10000)

\* return y when yOnly, else the distance, negative when y > 0
\* mutant: return y < 0 ? -delta : delta
SignedDelta_Flipped(y, i, q, yOnly) ==
    IF yOnly THEN y
    ELSE IF y < 0 THEN -YiqDistance(y, i, q) ELSE YiqDistance(y, i, q)

\* mutant: return y > 0 ? -y : delta
SignedDelta_ReturnsLuma(y, i, q, yOnly) ==
    IF yOnly THEN y
    ELSE IF y > 0 THEN -y ELSE YiqDistance(y, i, q)

SignedDelta(y, i, q, yOnly) ==
    IF yOnly THEN y
    ELSE IF y > 0 THEN -YiqDistance(y, i, q) ELSE YiqDistance(y, i, q)

\* y, i, q of the channel differences dr, dg, db (hundredths)
Yiq(dr, dg, db, yOnly) ==
    SignedDelta(SDiv(dr * 2989 + dg * 5866 + db * 1145, 10000),
                SDiv(dr * 5960 - dg * 2742 - db * 3218, 10000),
                SDiv(dr * 2115 - dg * 5226 + db * 3111, 10000), yOnly)

\* (c1 * a1 - c2 * a2 - bg * da) / 255, in hundredths
Blend(c1, a1, c2, a2, bg) ==
    SDiv(100 * (c1 * a1 - c2 * a2 - bg * (a1 - a2)), 255)

\* the checkerboard background at byte offset k
BackgroundR(k) == 48 + 159 * (k % 2)

BackgroundG(k) == 48 + 159 * (((k * 1000000) \div 1618034) % 2)

BackgroundB(k) == 48 + 159 * (((k * 1000000) \div 2618034) % 2)

\* colorDelta on the two pixels p1 = img1[k..k+3], p2 = img2[m..m+3]
ColorDeltaPixels(p1, p2, k, yOnly) ==
    IF p1[1] = p2[1] /\ p1[2] = p2[2] /\ p1[3] = p2[3] /\ p1[4] = p2[4] THEN 0
    ELSE IF p1[4] < 255 \/ p2[4] < 255
    THEN Yiq(Blend(p1[1], p1[4], p2[1], p2[4], BackgroundR(k)),
             Blend(p1[2], p1[4], p2[2], p2[4], BackgroundG(k)),
             Blend(p1[3], p1[4], p2[3], p2[4], BackgroundB(k)), yOnly)
    ELSE Yiq(100 * (p1[1] - p2[1]), 100 * (p1[2] - p2[2]),
             100 * (p1[3] - p2[3]), yOnly)

\* colorDelta(img1, img2, k, m, yOnly): k and m are byte offsets (4 * pixel
\* index).  Returns Y in hundredths when yOnly, else the signed YIQ distance
\* in ten-thousandths.
colorDelta(img1, img2, k, m, yOnly) ==
    ColorDeltaPixels(img1[k \div 4], img2[m \div 4], k, yOnly)

drawPixel(output, pos, r, g, b) ==
    [output EXCEPT ![pos \div 4] = <<r, g, b, 255>>]

\* val = 255 + ((Y - 255) * alpha * a) / 255, stored into a Uint8Array
\* (truncated).  alpha is in hundredths.
GrayVal(p, alpha) ==
    255 - CeilDiv((25500 - ((p[1] * 2989 + p[2] * 5866 + p[3] * 1145) \div 100))
                  * alpha * p[4], 2550000)

DrawGray(output, i, val) == drawPixel(output, i, val, val, val)

drawGrayPixel(img, i, alpha, output) ==
    DrawGray(output, i, GrayVal(img[i \div 4], alpha))

\* the points of the box [x0, x2] x [y0, y2] in the order of the two nested
\* loops (x outer, y inner), the centre (x1, y1) skipped
BoxPoints(x0, y0, x2, y2, x1, y1) ==
    SelectSeq([n \in 1..((x2 - x0 + 1) * (y2 - y0 + 1)) |->
                  <<x0 + ((n - 1) \div (y2 - y0 + 1)),
                    y0 + ((n - 1) % (y2 - y0 + 1))>>],
              LAMBDA pt : ~(pt[1] = x1 /\ pt[2] = y1))

\* mutant: the box is not clamped to the image
Neighbours_Unclamped(x1, y1, width, height) ==
    BoxPoints(x1 - 1, y1 - 1, x1 + 1, y1 + 1, x1, y1)

Neighbours(x1, y1, width, height) ==
    BoxPoints(Max2(x1 - 1, 0), Max2(y1 - 1, 0), Min2(x1 + 1, width - 1),
              Min2(y1 + 1, height - 1), x1, y1)

\* x1 === x0 || x1 === x2 || y1 === y0 || y1 === y2
OnEdge(x1, y1, width, height) ==
    \/ x1 = Max2(x1 - 1, 0)
    \/ x1 = Min2(x1 + 1, width - 1)
    \/ y1 = Max2(y1 - 1, 0)
    \/ y1 = Min2(y1 + 1, height - 1)

SiblingCount(zeroes, same) == IF same THEN zeroes + 1 ELSE zeroes

RECURSIVE SiblingScan(_, _, _, _, _)
SiblingScan(img, val, width, pts, zeroes) ==
    IF pts = <<>> THEN FALSE
    ELSE IF SiblingCount(zeroes, val = img[Head(pts)[2] * width + Head(pts)[1]]) > 2
    THEN TRUE
    ELSE SiblingScan(img, val, width, Tail(pts),
             SiblingCount(zeroes, val = img[Head(pts)[2] * width + Head(pts)[1]]))

hasManySiblings(img, x1, y1, width, height) ==
    SiblingScan(img, img[y1 * width + x1], width,
                Neighbours(x1, y1, width, height),
                IF OnEdge(x1, y1, width, height) THEN 1 ELSE 0)

\* mutant: if (zeroes > 3) return false
AAUpdate_LateReturn(st, delta, pt) ==
    IF delta = 0
    THEN [st EXCEPT !.zeroes = st.zeroes + 1, !.ret = st.zeroes + 1 > 3]
    ELSE IF delta < st.min
    THEN [st EXCEPT !.min = delta, !.minX = pt[1], !.minY = pt[2]]
    ELSE IF delta > st.max
    THEN [st EXCEPT !.max = delta, !.maxX = pt[1], !.maxY = pt[2]]
    ELSE st

\* the body of the loop of antialiased for neighbour pt with luminance
\* delta; st.ret is TRUE once the loop returned false
AAUpdate(st, delta, pt) ==
    IF delta = 0
    THEN [st EXCEPT !.zeroes = st.zeroes + 1, !.ret = st.zeroes + 1 > 2]
    ELSE IF delta < st.min
    THEN [st EXCEPT !.min = delta, !.minX = pt[1], !.minY = pt[2]]
    ELSE IF delta > st.max
    THEN [st EXCEPT !.max = delta, !.maxX = pt[1], !.maxY = pt[2]]
    ELSE st

RECURSIVE AAScan(_, _, _, _, _)
AAScan(img, pos, width, pts, st) ==
    IF pts = <<>> \/ st.ret THEN st
    ELSE AAScan(img, pos, width, Tail(pts),
             AAUpdate(st,
                      colorDelta(img, img, pos * 4,
                                 (Head(pts)[2] * width + Head(pts)[1]) * 4, TRUE),
                      Head(pts)))

\* mutant: the siblings are looked for in the first image only
AAVerdict_FirstImageOnly(st, a32, b32, width, height) ==
    IF st.ret THEN FALSE
    ELSE IF st.min = 0 \/ st.max = 0 THEN FALSE
    ELSE \/ hasManySiblings(a32, st.minX, st.minY, width, height)
         \/ hasManySiblings(a32, st.maxX, st.maxY, width, height)

\* what antialiased returns once the loop has ended in st
AAVerdict(st, a32, b32, width, height) ==
    IF st.ret THEN FALSE
    ELSE IF st.min = 0 \/ st.max = 0 THEN FALSE
    ELSE \/ /\ hasManySiblings(a32, st.minX, st.minY, width, height)
            /\ hasManySiblings(b32, st.minX, st.minY, width, height)
         \/ /\ hasManySiblings(a32, st.maxX, st.maxY, width, height)
            /\ hasManySiblings(b32, st.maxX, st.maxY, width, height)

antialiased(img, x1, y1, width, height, a32, b32) ==
    AAVerdict(AAScan(img, y1 * width + x1, width,
                     Neighbours(x1, y1, width, height),
                     [zeroes |-> IF OnEdge(x1, y1, width, height) THEN 1 ELSE 0,
                      min |-> 0, max |-> 0, minX |-> 0, minY |-> 0,
                      maxX |-> 0, maxY |-> 0, ret |-> FALSE]),
              a32, b32, width, height)

\* the offsets (hShift, vShift) in loop order (hShift outer)
ShiftOffsets(hs, vs) ==
    [n \in 1..((2 * hs + 1) * (2 * vs + 1)) |->
        <<((n - 1) \div (2 * vs + 1)) - hs, ((n - 1) % (2 * vs + 1)) - vs>>]

\* the two running minima after an in-bounds offset
ShiftUpdate(st, currDelta, otherDelta) ==
    [minAbsDelta |-> IF Abs(currDelta) < Abs(st.minAbsDelta)
                     THEN currDelta ELSE st.minAbsDelta,
     minOtherDelta |-> IF Abs(otherDelta) < Abs(st.minOtherDelta)
                       THEN otherDelta ELSE st.minOtherDelta]

\* the body of the inner loop for the pixel (sx, sy) at byte offset shiftedPos
ShiftVisit(img1, img2, sx, sy, width, height, pos, shiftedPos, st) ==
    IF sx < 0 \/ sx >= width \/ sy < 0 \/ sy >= height THEN st
    ELSE ShiftUpdate(st, colorDelta(img1, img2, pos, shiftedPos, FALSE),
                     colorDelta(img1, img2, shiftedPos, pos, FALSE))

\* mutant: an offset outside the image ends the inner loop (break for
\* continue), so the other vShift of that hShift are not tried
RECURSIVE ShiftScan_Break(_, _, _, _, _, _, _, _, _)
ShiftScan_Break(img1, img2, x, y, width, height, pos, offs, st) ==
    IF offs = <<>> THEN st
    ELSE IF x + Head(offs)[1] < 0 \/ x + Head(offs)[1] >= width
            \/ y + Head(offs)[2] < 0 \/ y + Head(offs)[2] >= height
    THEN ShiftScan_Break(img1, img2, x, y, width, height, pos,
             SelectSeq(Tail(offs), LAMBDA e : e[1] # Head(offs)[1]), st)
    ELSE ShiftScan_Break(img1, img2, x, y, width, height, pos, Tail(offs),
             ShiftVisit(img1, img2, x + Head(offs)[1], y + Head(offs)[2],
                        width, height, pos,
                        pos + (width * Head(offs)[2] + Head(offs)[1]) * 4, st))

RECURSIVE ShiftScan(_, _, _, _, _, _, _, _, _)
ShiftScan(img1, img2, x, y, width, height, pos, offs, st) ==
    IF offs = <<>> THEN st
    ELSE ShiftScan(img1, img2, x, y, width, height, pos, Tail(offs),
             ShiftVisit(img1, img2, x + Head(offs)[1], y + Head(offs)[2],
                        width, height, pos,
                        pos + (width * Head(offs)[2] + Head(offs)[1]) * 4, st))

\* mutant: the forward minimum is returned whatever the backward one is
ShiftResult_ForwardOnly(st) == st.minAbsDelta

ShiftResult(st) ==
    IF Abs(st.minAbsDelta) > Abs(st.minOtherDelta)
    THEN st.minAbsDelta ELSE st.minOtherDelta

findBestMatchingPixel(img1, img2, x, y, width, height, pos, hs, vs) ==
    ShiftResult(ShiftScan(img1, img2, x, y, width, height, pos,
                          ShiftOffsets(hs, vs),
                          [minAbsDelta |-> Infinity, minOtherDelta |-> Infinity]))

\* ------------------------------------------------- options and defaults
\* destructuring defaults of pixelmatch (browser) and of the worker:
\* threshold = 0.1, alpha = 0.1, shifts = 0; includeAA and diffMask are used
\* as booleans; diffColorAlt || diffColor
OptThreshold(o) == IF o.threshold = Absent THEN DefaultThreshold ELSE o.threshold

OptAlpha(o) == IF o.alpha = Absent THEN DefaultAlpha ELSE o.alpha

\* options.alpha || 0.1 of the identical-image path of _pixelmatch_node_workers
NodeFastAlpha(o) ==
    IF o.alpha = Absent \/ o.alpha = 0 THEN DefaultAlpha ELSE o.alpha

OptHShift(o) ==
    IF o.horizontalShiftPixels = Absent THEN 0 ELSE o.horizontalShiftPixels

OptVShift(o) ==
    IF o.verticalShiftPixels = Absent THEN 0 ELSE o.verticalShiftPixels

AaColor == <<255, 255, 0>>

DiffColor == <<255, 0, 0>>

OptAltColor(o) == IF o.diffColorAlt = <<>> THEN DiffColor ELSE o.diffColorAlt

\* mutant: the threshold's complement squared
MaxDelta_Complement(o) ==
    MaxYIQ * (100 - OptThreshold(o)) * (100 - OptThreshold(o))

MaxDelta(o) == MaxYIQ * OptThreshold(o) * OptThreshold(o)

HasOutput(output) == output.kind # "null"

\* ------------------------------------------------ the per-pixel decision
\* the shift search replaces the direct delta d0 when d0 is above maxDelta
\* and a window is configured
Escalate(d0, maxDelta, i1, i2, x, y, width, height, o) ==
    IF (d0 > maxDelta \/ d0 < -1 * maxDelta)
       /\ (OptHShift(o) > 0 \/ OptVShift(o) > 0)
    THEN findBestMatchingPixel(i1, i2, x, y, width, height, (y * width + x) * 4,
                               OptHShift(o), OptVShift(o))
    ELSE d0

\* delta of pixel (x, y): 0 when the packed pixels are equal, else colorDelta
PixelDelta(i1, i2, x, y, width, height, o) ==
    Escalate(IF i1[y * width + x] = i2[y * width + x] THEN 0
             ELSE colorDelta(i1, i2, (y * width + x) * 4, (y * width + x) * 4, FALSE),
             MaxDelta(o), i1, i2, x, y, width, height, o)

IsAA(i1, i2, x, y, width, height) ==
    \/ antialiased(i1, x, y, width, height, i1, i2)
    \/ antialiased(i2, x, y, width, height, i2, i1)

Outcome(diff, branch, wrote, out) ==
    [diff |-> diff, branch |-> branch, wrote |-> wrote, out |-> out]

\* mutant: diff++ moved inside the if (output) block
BrowserDecide_CountsOnlyWithOutput(delta, i1, i2, hasOut, out, x, y, width, height, pos, o) ==
    IF Abs(delta) > MaxDelta(o)
    THEN IF ~o.includeAA /\ IsAA(i1, i2, x, y, width, height)
         THEN IF hasOut /\ ~o.diffMask
              THEN Outcome(0, "aa", 1,
                           drawPixel(out, pos, AaColor[1], AaColor[2], AaColor[3]))
              ELSE Outcome(0, "aa", 0, out)
         ELSE IF hasOut
              THEN IF delta < 0
                   THEN Outcome(1, "alt", 1,
                                drawPixel(out, pos, OptAltColor(o)[1],
                                          OptAltColor(o)[2], OptAltColor(o)[3]))
                   ELSE Outcome(1, "diff", 1,
                                drawPixel(out, pos, DiffColor[1], DiffColor[2],
                                          DiffColor[3]))
              ELSE Outcome(0, IF delta < 0 THEN "alt" ELSE "diff", 0, out)
    ELSE IF hasOut /\ ~o.diffMask
         THEN Outcome(0, "gray", 1, drawGrayPixel(i1, pos, OptAlpha(o), out))
         ELSE Outcome(0, "gray", 0, out)

\* mutant: if (isAA) in place of if (!includeAA && isAA)
BrowserDecide_AaIgnoresFlag(delta, i1, i2, hasOut, out, x, y, width, height, pos, o) ==
    IF Abs(delta) > MaxDelta(o)
    THEN IF IsAA(i1, i2, x, y, width, height)
         THEN IF hasOut /\ ~o.diffMask
              THEN Outcome(0, "aa", 1,
                           drawPixel(out, pos, AaColor[1], AaColor[2], AaColor[3]))
              ELSE Outcome(0, "aa", 0, out)
         ELSE IF hasOut
              THEN IF delta < 0
                   THEN Outcome(1, "alt", 1,
                                drawPixel(out, pos, OptAltColor(o)[1],
                                          OptAltColor(o)[2], OptAltColor(o)[3]))
                   ELSE Outcome(1, "diff", 1,
                                drawPixel(out, pos, DiffColor[1], DiffColor[2],
                                          DiffColor[3]))
              ELSE Outcome(1, IF delta < 0 THEN "alt" ELSE "diff", 0, out)
    ELSE IF hasOut /\ ~o.diffMask
         THEN Outcome(0, "gray", 1, drawGrayPixel(i1, pos, OptAlpha(o), out))
         ELSE Outcome(0, "gray", 0, out)

\* mutant: the gray pixel is blended from img2
BrowserDecide_GrayOfSecond(delta, i1, i2, hasOut, out, x, y, width, height, pos, o) ==
    IF Abs(delta) > MaxDelta(o)
    THEN IF ~o.includeAA /\ IsAA(i1, i2, x, y, width, height)
         THEN IF hasOut /\ ~o.diffMask
              THEN Outcome(0, "aa", 1,
                           drawPixel(out, pos, AaColor[1], AaColor[2], AaColor[3]))
              ELSE Outcome(0, "aa", 0, out)
         ELSE IF hasOut
              THEN IF delta < 0
                   THEN Outcome(1, "alt", 1,
                                drawPixel(out, pos, OptAltColor(o)[1],
                                          OptAltColor(o)[2], OptAltColor(o)[3]))
                   ELSE Outcome(1, "diff", 1,
                                drawPixel(out, pos, DiffColor[1], DiffColor[2],
                                          DiffColor[3]))
              ELSE Outcome(1, IF delta < 0 THEN "alt" ELSE "diff", 0, out)
    ELSE IF hasOut /\ ~o.diffMask
         THEN Outcome(0, "gray", 1, drawGrayPixel(i2, pos, OptAlpha(o), out))
         ELSE Outcome(0, "gray", 0, out)

\* The decision of pixelmatch (browser) for the pixel at byte offset pos,
\* given its delta: the increment of diff, the branch taken, whether the
\* branch wrote the output, and the output after it.  out is the pixel array
\* of the output, unused when hasOut is FALSE.
BrowserDecide(delta, i1, i2, hasOut, out, x, y, width, height, pos, o) ==
    IF Abs(delta) > MaxDelta(o)
    THEN IF ~o.includeAA /\ IsAA(i1, i2, x, y, width, height)
         THEN IF hasOut /\ ~o.diffMask
              THEN Outcome(0, "aa", 1,
                           drawPixel(out, pos, AaColor[1], AaColor[2], AaColor[3]))
              ELSE Outcome(0, "aa", 0, out)
         ELSE IF hasOut
              THEN IF delta < 0
                   THEN Outcome(1, "alt", 1,
                                drawPixel(out, pos, OptAltColor(o)[1],
                                          OptAltColor(o)[2], OptAltColor(o)[3]))
                   ELSE Outcome(1, "diff", 1,
                                drawPixel(out, pos, DiffColor[1], DiffColor[2],
                                          DiffColor[3]))
              ELSE Outcome(1, IF delta < 0 THEN "alt" ELSE "diff", 0, out)
    ELSE IF hasOut /\ ~o.diffMask
         THEN Outcome(0, "gray", 1, drawGrayPixel(i1, pos, OptAlpha(o), out))
         ELSE Outcome(0, "gray", 0, out)

\* one iteration of the loop body of pixelmatch (browser)
BrowserPixel(i1, i2, hasOut, out, x, y, width, height, o) ==
    BrowserDecide(PixelDelta(i1, i2, x, y, width, height, o), i1, i2, hasOut, out,
                  x, y, width, height, (y * width + x) * 4, o)

\* mutant: the similar-pixel branch draws the gray pixel under diffMask too
WorkerDecide_GrayIgnoresMask(delta, i1, i2, hasOut, out, x, y, width, height, pos, o) ==
    IF Abs(delta) > MaxDelta(o)
    THEN IF ~o.includeAA /\ IsAA(i1, i2, x, y, width, height)
         THEN IF hasOut /\ ~o.diffMask
              THEN Outcome(0, "aa", 1,
                           drawPixel(out, pos, AaColor[1], AaColor[2], AaColor[3]))
              ELSE Outcome(0, "aa", 0, out)
         ELSE IF hasOut
              THEN IF delta < 0
                   THEN Outcome(1, "alt", 1,
                                drawPixel(out, pos, OptAltColor(o)[1],
                                          OptAltColor(o)[2], OptAltColor(o)[3]))
                   ELSE Outcome(1, "diff", 1,
                                drawPixel(out, pos, DiffColor[1], DiffColor[2],
                                          DiffColor[3]))
              ELSE Outcome(1, IF delta < 0 THEN "alt" ELSE "diff", 0, out)
    ELSE IF hasOut
         THEN Outcome(0, "gray", 1, drawGrayPixel(i1, pos, OptAlpha(o), out))
         ELSE Outcome(0, "gray", 0, out)

\* the same decision in the worker (outputView is the staging buffer)
WorkerDecide(delta, i1, i2, hasOut, out, x, y, width, height, pos, o) ==
    IF Abs(delta) > MaxDelta(o)
    THEN IF ~o.includeAA /\ IsAA(i1, i2, x, y, width, height)
         THEN IF hasOut /\ ~o.diffMask
              THEN Outcome(0, "aa", 1,
                           drawPixel(out, pos, AaColor[1], AaColor[2], AaColor[3]))
              ELSE Outcome(0, "aa", 0, out)
         ELSE IF hasOut
              THEN IF delta < 0
                   THEN Outcome(1, "alt", 1,
                                drawPixel(out, pos, OptAltColor(o)[1],
                                          OptAltColor(o)[2], OptAltColor(o)[3]))
                   ELSE Outcome(1, "diff", 1,
                                drawPixel(out, pos, DiffColor[1], DiffColor[2],
                                          DiffColor[3]))
              ELSE Outcome(1, IF delta < 0 THEN "alt" ELSE "diff", 0, out)
    ELSE IF hasOut /\ ~o.diffMask
         THEN Outcome(0, "gray", 1, drawGrayPixel(i1, pos, OptAlpha(o), out))
         ELSE Outcome(0, "gray", 0, out)

\* mutant: the byte offset taken from the column alone
WorkerPixel_IgnoresRow(i1, i2, hasOut, out, x, y, width, height, o) ==
    WorkerDecide(PixelDelta(i1, i2, x, y, width, height, o), i1, i2, hasOut, out,
                 x, y, width, height, x * 4, o)

\* one iteration of the worker's loop
WorkerPixel(i1, i2, hasOut, out, x, y, width, height, o) ==
    WorkerDecide(PixelDelta(i1, i2, x, y, width, height, o), i1, i2, hasOut, out,
                 x, y, width, height, (y * width + x) * 4, o)

\* colorDelta is evaluated for a pixel exactly when its packed values differ
MetricUse(i1, i2, i) == IF i1[i] = i2[i] THEN 0 ELSE 1

\* --------------------------------------------- sequential engine (browser)
Identical(i1, i2, len) == \A i \in 0..(len - 1) : i1[i] = i2[i]

Zeros(len) == [i \in 0..(len - 1) |-> 0]

RECURSIVE GrayLoop(_, _, _, _, _)
GrayLoop(img, alpha, out, i, len) ==
    IF i >= len THEN out
    ELSE GrayLoop(img, alpha, drawGrayPixel(img, 4 * i, alpha, out), i + 1, len)

LoopStart(out, len) ==
    [diff |-> 0, out |-> out, visits |-> Zeros(len), writes |-> Zeros(len),
     metric |-> 0]

\* the bookkeeping after the iteration for pixel i had outcome r
Accumulate(acc, r, i, used) ==
    [diff |-> acc.diff + r.diff,
     out |-> r.out,
     visits |-> [acc.visits EXCEPT ![i] = @ + 1],
     writes |-> [acc.writes EXCEPT ![i] = @ + r.wrote],
     metric |-> acc.metric + used]

\* the double loop of pixelmatch over all pixels, in index order
RECURSIVE BrowserLoop(_, _, _, _, _, _, _, _)
BrowserLoop(i1, i2, hasOut, width, height, o, i, acc) ==
    IF i >= width * height THEN acc
    ELSE BrowserLoop(i1, i2, hasOut, width, height, o, i + 1,
             Accumulate(acc,
                        BrowserPixel(i1, i2, hasOut, acc.out, i % width,
                                     i \div width, width, height, o),
                        i, MetricUse(i1, i2, i)))

\* mutant: the width/height check made before the length comparison
ArgError_DimensionFirst(a, b, out, width, height) ==
    IF ~isPixelData(a) \/ ~isPixelData(b) \/ (HasOutput(out) /\ ~isPixelData(out))
    THEN "format"
    ELSE IF a.len # width * height * 4
    THEN "dimension"
    ELSE IF a.len # b.len \/ (HasOutput(out) /\ out.len # a.len)
    THEN "size"
    ELSE "none"

\* the arguments' checks, in the order of the code
ArgError(a, b, out, width, height) ==
    IF ~isPixelData(a) \/ ~isPixelData(b) \/ (HasOutput(out) /\ ~isPixelData(out))
    THEN "format"
    ELSE IF a.len # b.len \/ (HasOutput(out) /\ out.len # a.len)
    THEN "size"
    ELSE IF a.len # width * height * 4
    THEN "dimension"
    ELSE "none"

Return(err, res, out, vis, wr, met) ==
    [error |-> err, result |-> res, output |-> out, visits |-> vis,
     writes |-> wr, metric |-> met]

\* mutant: the fast path returns the number of pixels it went over
BrowserIdentical_ReturnsLen(a, out, len, o) ==
    IF HasOutput(out) /\ ~o.diffMask
    THEN Return("none", len,
                [out EXCEPT !.px = GrayLoop(a.px, OptAlpha(o), out.px, 0, len)],
                Zeros(len), [i \in 0..(len - 1) |-> 1], 0)
    ELSE Return("none", len, out, Zeros(len), Zeros(len), 0)

\* mutant: the fast path draws the gray image under diffMask too
BrowserIdentical_IgnoresMask(a, out, len, o) ==
    IF HasOutput(out)
    THEN Return("none", 0,
                [out EXCEPT !.px = GrayLoop(a.px, OptAlpha(o), out.px, 0, len)],
                Zeros(len), [i \in 0..(len - 1) |-> 1], 0)
    ELSE Return("none", 0, out, Zeros(len), Zeros(len), 0)

\* the fast path of pixelmatch for identical images
BrowserIdentical(a, out, len, o) ==
    IF HasOutput(out) /\ ~o.diffMask
    THEN Return("none", 0,
                [out EXCEPT !.px = GrayLoop(a.px, OptAlpha(o), out.px, 0, len)],
                Zeros(len), [i \in 0..(len - 1) |-> 1], 0)
    ELSE Return("none", 0, out, Zeros(len), Zeros(len), 0)

BrowserReturn(out, acc) ==
    Return("none", acc.diff,
           IF HasOutput(out) THEN [out EXCEPT !.px = acc.out] ELSE out,
           acc.visits, acc.writes, acc.metric)

\* mutant: the width/height check made after the identical-image fast path
\* has drawn
pixelmatch_ChecksDimensionLate(a, b, out, width, height, o) ==
    IF ArgError(a, b, out, width, height) \in {"format", "size"}
    THEN Return(ArgError(a, b, out, width, height), Absent, out, <<>>, <<>>, 0)
    ELSE IF Identical(a.px, b.px, width * height)
    THEN [BrowserIdentical(a, out, width * height, o) EXCEPT
            !.error = ArgError(a, b, out, width, height),
            !.result = IF ArgError(a, b, out, width, height) = "none"
                       THEN 0 ELSE Absent]
    ELSE IF ArgError(a, b, out, width, height) # "none"
    THEN Return(ArgError(a, b, out, width, height), Absent, out, <<>>, <<>>, 0)
    ELSE BrowserReturn(out,
             BrowserLoop(a.px, b.px, HasOutput(out), width, height, o, 0,
                         LoopStart(out.px, width * height)))

\* pixelmatch (browser): the whole synchronous call.  Returns the error (or
\* "none"), the count, the output buffer after the call and the bookkeeping
\* of the pixels visited, the pixels written and the metric evaluations.
pixelmatch(a, b, out, width, height, o) ==
    IF ArgError(a, b, out, width, height) # "none"
    THEN Return(ArgError(a, b, out, width, height), Absent, out, <<>>, <<>>, 0)
    ELSE IF Identical(a.px, b.px, width * height)
    THEN BrowserIdentical(a, out, width * height, o)
    ELSE BrowserReturn(out,
             BrowserLoop(a.px, b.px, HasOutput(out), width, height, o, 0,
                         LoopStart(out.px, width * height)))

\* ------------------------------------------------------ dispatcher (node)
\* the checks of the asynchronous pixelmatch: img1/img2 format, output
\* format, sizes, dimensions
NodeArgError(a, b, out, width, height) ==
    IF ~isPixelData(a) \/ ~isPixelData(b) THEN "format"
    ELSE IF HasOutput(out) /\ ~isPixelData(out) THEN "format"
    ELSE IF a.len # b.len \/ (HasOutput(out) /\ out.len # a.len) THEN "size"
    ELSE IF a.len # width * height * 4 THEN "dimension"
    ELSE "none"

\* options.horizontalShiftPixels || options.verticalShiftPixels
HasShift(o) ==
    \/ o.horizontalShiftPixels \notin {Absent, 0}
    \/ o.verticalShiftPixels \notin {Absent, 0}

\* mutant: isLargeImage = width * height >= 1000000
UseWorkers_AtLeast(width, height, o) ==
    LET isLargeImage == width * height >= LargeImagePixels
    IN  isLargeImage \/ (~isLargeImage /\ HasShift(o))

UseWorkers(width, height, o) ==
    LET isLargeImage == width * height > LargeImagePixels
    IN  isLargeImage \/ (~isLargeImage /\ HasShift(o))

NumWorkers(ncpus) == Max2(1, ncpus - 1)

\* mutant: Math.floor instead of Math.ceil
ChunkHeight_Floor(height, n) == height \div n

ChunkHeight(height, n) == CeilDiv(height, n)

\* mutant: every band starts at row 0
StartY_Zero(i, height, n) == 0

StartY(i, height, n) == i * ChunkHeight(height, n)

\* mutant: the band's last row taken as its end
EndY_LastRow(i, height, n) == Min2((i + 1) * ChunkHeight(height, n) - 1, height)

EndY(i, height, n) == Min2((i + 1) * ChunkHeight(height, n), height)

RECURSIVE SumResults(_, _)
SumResults(ws, i) ==
    IF i \notin DOMAIN ws THEN 0 ELSE ws[i].res + SumResults(ws, i + 1)

\* ------------------------------------------------------------------ state
VARIABLES
    img1,       \* first image (never assigned by the code)
    img2,       \* second image
    output,     \* the caller's output buffer, or NoOutput
    output0,    \* the output buffer as it was when the call started
    width,
    height,
    options,
    api,        \* "sync": pixelmatch of browser; "async": pixelmatch of node
    alias,      \* "img1"/"img2": output is that very buffer; "none": its own
    engine,     \* function that ran the compare: "none", "browser", "workers"
    cpus,       \* cpus().length
    pc,         \* "start", "await" (the join on the band results), "done", "error"
    error,      \* "none", "format", "size", "dimension"
    result,     \* the returned count, Absent until the call returns
    sharedOutputBuffer, \* pixels of the staging buffer, <<>> when there is none
    workers,    \* worker i |-> [startY, endY, y, x, diff, st, res, failed]
    visits,     \* pixel |-> number of times the decision loop ran for it
    writes,     \* pixel |-> number of drawPixel/drawGrayPixel calls on it
    metric      \* number of pixels for which colorDelta was evaluated

vars == <<img1, img2, output, output0, width, height, options, api, alias,
          engine, cpus, pc, error, result, sharedOutputBuffer, workers, visits,
          writes, metric>>

inputs == <<img1, img2, output0, width, height, options, api, alias, cpus>>

\* ----------------------------------------------------------------- inputs
Black == <<0, 0, 0, 255>>

Dark == <<10, 10, 10, 255>>

Gray == <<128, 128, 128, 255>>

White == <<255, 255, 255, 255>>

Glass == <<255, 0, 0, 128>>

Sentinel == <<1, 2, 3, 4>>

BasePixel(x, y) == <<Black, Gray, White>>[((x + 2 * y) % 3) + 1]

Buffer(kind, len, px) == [kind |-> kind, len |-> len, px |-> px]

BaseImage(w, h) ==
    Buffer("u8", 4 * w * h, [i \in 0..(w * h - 1) |-> BasePixel(i % w, i \div w)])

Filled(w, h, p) == Buffer("u8", 4 * w * h, [i \in 0..(w * h - 1) |-> p])

Poke(img, i, p) == [img EXCEPT !.px[i] = p]

\* the second image: the first one, or the first one with one pixel replaced
SecondImages(w, h) ==
    {BaseImage(w, h)} \cup
    {Poke(BaseImage(w, h), i, p) : i \in 0..(w * h - 1), p \in {Dark, Glass}}

ShiftPairs == {<<Absent, Absent>>, <<1, 0>>, <<0, 1>>}

Options(t, aa, al, dm, sh) ==
    [threshold |-> t, includeAA |-> aa, alpha |-> al, diffMask |-> dm,
     horizontalShiftPixels |-> sh[1], verticalShiftPixels |-> sh[2],
     diffColorAlt |-> <<0, 255, 0>>]

\* alpha and diffMask are read only when an output buffer is given
OptionsWithOutput ==
    {Options(t, aa, al, dm, sh) :
        t \in {Absent, 0}, aa \in BOOLEAN, al \in {Absent, 0, 50},
        dm \in BOOLEAN, sh \in ShiftPairs}

OptionsNoOutput ==
    {Options(t, aa, Absent, FALSE, sh) :
        t \in {Absent, 0}, aa \in BOOLEAN, sh \in ShiftPairs}

DefaultOptions ==
    [threshold |-> Absent, includeAA |-> FALSE, alpha |-> Absent,
     diffMask |-> FALSE, horizontalShiftPixels |-> Absent,
     verticalShiftPixels |-> Absent, diffColorAlt |-> <<>>]

Call(a, b, out, w, h, o) ==
    [img1 |-> a, img2 |-> b, output |-> out, width |-> w, height |-> h,
     options |-> o]

ValidFor(w, h) ==
    {Call(BaseImage(w, h), b, Filled(w, h, Sentinel), w, h, o) :
        b \in SecondImages(w, h), o \in OptionsWithOutput}
    \cup
    {Call(BaseImage(w, h), b, NoOutput, w, h, o) :
        b \in SecondImages(w, h), o \in OptionsNoOutput}
    \cup
    {Call(BaseImage(w, h), BaseImage(w, h), NoOutput, w, h, DefaultOptions)}

ValidInputs == UNION {ValidFor(w, h) : w \in 1..MaxW, h \in 1..MaxH}

\* calls whose buffers have a wrong type or a wrong length
Resize(img, kind, extra) == [img EXCEPT !.kind = kind, !.len = @ + extra]

InvalidFor(w, h) ==
    {Call(Resize(BaseImage(w, h), k1, e1), Resize(BaseImage(w, h), k2, e2),
          out, w, h, DefaultOptions) :
        k1 \in {"u8", "array"}, k2 \in {"u8", "array"},
        e1 \in {0, 1}, e2 \in {0, 1},
        out \in {NoOutput} \cup
                {Resize(Filled(w, h, Sentinel), k3, e3) :
                    k3 \in {"u8", "array"}, e3 \in {0, 1}}}

InvalidInputs == UNION {InvalidFor(w, h) : w \in 1..MaxW, h \in 1..MaxH}

Inputs == ValidInputs \cup InvalidInputs

Init ==
    \E in \in Inputs, a \in {"sync", "async"}, n \in 1..MaxCpus :
        /\ a = "sync" => n = 1      \* the synchronous engine never reads cpus
        /\ img1 = in.img1
        /\ img2 = in.img2
        /\ output = in.output
        /\ output0 = in.output
        /\ width = in.width
        /\ height = in.height
        /\ options = in.options
        /\ api = a
        /\ alias = "none"
        /\ engine = "none"
        /\ cpus = n
        /\ pc = "start"
        /\ error = "none"
        /\ result = Absent
        /\ sharedOutputBuffer = <<>>
        /\ workers = <<>>
        /\ visits = <<>>
        /\ writes = <<>>
        /\ metric = 0

\* ---------------------------------------------------------------- actions
\* the synchronous pixelmatch, from call to return or throw
\* mutant: the engine draws into img1 instead of output
Finish_DrawsIntoImg1(r) ==
    /\ pc' = IF r.error = "none" THEN "done" ELSE "error"
    /\ error' = r.error
    /\ result' = r.result
    /\ output' = output
    /\ img1' = IF HasOutput(r.output) THEN r.output ELSE img1
    /\ visits' = r.visits
    /\ writes' = r.writes
    /\ metric' = r.metric
    /\ engine' = "browser"
    /\ UNCHANGED <<img2, output0, width, height, options, api, alias, cpus,
                   sharedOutputBuffer, workers>>

Finish(r) ==
    /\ pc' = IF r.error = "none" THEN "done" ELSE "error"
    /\ error' = r.error
    /\ result' = r.result
    /\ output' = r.output
    /\ visits' = r.visits
    /\ writes' = r.writes
    /\ metric' = r.metric
    /\ engine' = "browser"
    /\ UNCHANGED <<inputs, sharedOutputBuffer, workers>>

PixelmatchBrowser ==
    /\ pc = "start"
    /\ api = "sync"
    /\ Finish(pixelmatch(img1, img2, output, width, height, options))

\* the asynchronous pixelmatch throws on bad arguments
NodeReject ==
    /\ pc = "start"
    /\ api = "async"
    /\ NodeArgError(img1, img2, output, width, height) # "none"
    /\ pc' = "error"
    /\ error' = NodeArgError(img1, img2, output, width, height)
    /\ UNCHANGED <<inputs, engine, output, result, sharedOutputBuffer, workers,
                   visits, writes, metric>>

\* !useWorkers: the asynchronous pixelmatch runs the browser engine
NodeSequential ==
    /\ pc = "start"
    /\ api = "async"
    /\ NodeArgError(img1, img2, output, width, height) = "none"
    /\ ~UseWorkers(width, height, options)
    /\ Finish(pixelmatch(img1, img2, output, width, height, options))

\* _pixelmatch_node_workers on identical images: the fast path
NodeIdentical ==
    /\ pc = "start"
    /\ api = "async"
    /\ NodeArgError(img1, img2, output, width, height) = "none"
    /\ UseWorkers(width, height, options)
    /\ Identical(img1.px, img2.px, width * height)
    /\ pc' = "done"
    /\ result' = 0
    /\ IF HasOutput(output) /\ ~options.diffMask
       THEN /\ output' = [output EXCEPT !.px =
                            GrayLoop(img1.px, NodeFastAlpha(options), output.px,
                                     0, width * height)]
            /\ writes' = [i \in 0..(width * height - 1) |-> 1]
       ELSE /\ output' = output
            /\ writes' = Zeros(width * height)
    /\ visits' = Zeros(width * height)
    /\ engine' = "workers"
    /\ UNCHANGED <<inputs, error, sharedOutputBuffer, workers, metric>>

\* _pixelmatch_node_workers up to the await: one worker per band, and the
\* staging SharedArrayBuffer (zero-filled) when an output is given
NodeSpawn ==
    /\ pc = "start"
    /\ api = "async"
    /\ NodeArgError(img1, img2, output, width, height) = "none"
    /\ UseWorkers(width, height, options)
    /\ ~Identical(img1.px, img2.px, width * height)
    /\ pc' = "await"
    /\ sharedOutputBuffer' =
          IF HasOutput(output)
          THEN [i \in 0..((output.len \div 4) - 1) |-> <<0, 0, 0, 0>>]
          ELSE <<>>
    /\ workers' = [i \in 0..(NumWorkers(cpus) - 1) |->
                      [startY |-> StartY(i, height, NumWorkers(cpus)),
                       endY |-> EndY(i, height, NumWorkers(cpus)),
                       y |-> StartY(i, height, NumWorkers(cpus)),
                       x |-> 0, diff |-> 0, st |-> "running", res |-> Absent,
                       failed |-> FALSE]]
    /\ visits' = Zeros(width * height)
    /\ writes' = Zeros(width * height)
    /\ engine' = "workers"
    /\ UNCHANGED <<inputs, output, error, result, metric>>

\* worker i has run the iteration for pixel (x, y) with outcome r
WorkerAdvance(i, x, y, r) ==
    /\ workers' = [workers EXCEPT
                     ![i].diff = @ + r.diff,
                     ![i].x = IF x + 1 >= width THEN 0 ELSE x + 1,
                     ![i].y = IF x + 1 >= width THEN y + 1 ELSE y]
    /\ sharedOutputBuffer' = r.out
    /\ visits' = [visits EXCEPT ![y * width + x] = @ + 1]
    /\ writes' = [writes EXCEPT ![y * width + x] = @ + r.wrote]
    /\ metric' = metric + MetricUse(img1.px, img2.px, y * width + x)

\* one iteration of the worker's loop: pixel (x, y) of its band
WorkerStep(i) ==
    /\ pc = "await"
    /\ workers[i].st = "running"
    /\ workers[i].y < workers[i].endY
    /\ WorkerAdvance(i, workers[i].x, workers[i].y,
                     WorkerPixel(img1.px, img2.px, sharedOutputBuffer # <<>>,
                                 sharedOutputBuffer, workers[i].x, workers[i].y,
                                 width, height, options))
    /\ UNCHANGED <<inputs, engine, output, pc, error, result>>

\* the loop is over: parentPort.postMessage(diff)
WorkerPost(i) ==
    /\ pc = "await"
    /\ workers[i].st = "running"
    /\ workers[i].y >= workers[i].endY
    /\ workers' = [workers EXCEPT ![i].st = "posted"]
    /\ UNCHANGED <<inputs, engine, output, pc, error, result, sharedOutputBuffer,
                   visits, writes, metric>>

\* worker.on('message'): resolve(diff)
OnMessage(i) ==
    /\ pc = "await"
    /\ workers[i].st = "posted"
    /\ workers' = [workers EXCEPT ![i].st = "resolved", ![i].res = workers[i].diff]
    /\ UNCHANGED <<inputs, engine, output, pc, error, result, sharedOutputBuffer,
                   visits, writes, metric>>

\* mutant: Promise.race instead of Promise.all
Join_Race ==
    /\ pc = "await"
    /\ \E i \in DOMAIN workers :
          /\ workers[i].st = "resolved"
          /\ result' = workers[i].res
    /\ workers' = [i \in DOMAIN workers |-> [workers[i] EXCEPT !.st = "terminated"]]
    /\ output' = IF HasOutput(output) /\ sharedOutputBuffer # <<>>
                 THEN [output EXCEPT !.px = sharedOutputBuffer]
                 ELSE output
    /\ pc' = "done"
    /\ UNCHANGED <<inputs, engine, error, sharedOutputBuffer, visits, writes,
                   metric>>

\* mutant: workers.forEach((worker) => worker.terminate()) left out
Join_NoTerminate ==
    /\ pc = "await"
    /\ \A i \in DOMAIN workers : workers[i].st = "resolved"
    /\ output' = IF HasOutput(output) /\ sharedOutputBuffer # <<>>
                 THEN [output EXCEPT !.px = sharedOutputBuffer]
                 ELSE output
    /\ result' = SumResults(workers, 0)
    /\ pc' = "done"
    /\ UNCHANGED <<inputs, engine, error, sharedOutputBuffer, workers, visits,
                   writes, metric>>

\* after Promise.all: terminate the workers, copy the staging buffer into
\* the output, return the sum
Join ==
    /\ pc = "await"
    /\ \A i \in DOMAIN workers : workers[i].st = "resolved"
    /\ workers' = [i \in DOMAIN workers |-> [workers[i] EXCEPT !.st = "terminated"]]
    /\ output' = IF HasOutput(output) /\ sharedOutputBuffer # <<>>
                 THEN [output EXCEPT !.px = sharedOutputBuffer]
                 ELSE output
    /\ result' = SumResults(workers, 0)
    /\ pc' = "done"
    /\ UNCHANGED <<inputs, engine, error, sharedOutputBuffer, visits, writes,
                   metric>>

Next ==
    \/ PixelmatchBrowser
    \/ NodeReject
    \/ NodeSequential
    \/ NodeIdentical
    \/ NodeSpawn
    \/ \E i \in DOMAIN workers : WorkerStep(i)
    \/ \E i \in DOMAIN workers : WorkerPost(i)
    \/ \E i \in DOMAIN workers : OnMessage(i)
    \/ Join

Spec == Init /\ [][Next]_vars

\* ------------------------------------------------------ failing workers
\* a worker that throws ends without posting; its 'error' event reaches the
\* handler registered by _pixelmatch_node_workers

\* worker i throws, at any point of its run before the post
WorkerError(i) ==
    /\ pc = "await"
    /\ workers[i].st = "running"
    /\ workers' = [workers EXCEPT ![i].st = "failed", ![i].failed = TRUE]
    /\ UNCHANGED <<inputs, engine, output, pc, error, result, sharedOutputBuffer,
                   visits, writes, metric>>

\* mutant: the handler rejects, so that Promise.all rejects and pixelmatch
\* throws
OnError_Rejects(i) ==
    /\ pc = "await"
    /\ workers[i].st = "failed"
    /\ pc' = "error"
    /\ error' = "worker"
    /\ UNCHANGED <<inputs, engine, output, result, sharedOutputBuffer, workers,
                   visits, writes, metric>>

\* mutant: the handler logs the error and leaves the promise pending
OnError_Silent(i) ==
    /\ pc = "await"
    /\ workers[i].st = "failed"
    /\ workers' = [workers EXCEPT ![i].st = "logged"]
    /\ UNCHANGED <<inputs, engine, output, pc, error, result, sharedOutputBuffer,
                   visits, writes, metric>>

\* worker.on('error'): console.error, resolve(0)
OnError(i) ==
    /\ pc = "await"
    /\ workers[i].st = "failed"
    /\ workers' = [workers EXCEPT ![i].st = "resolved", ![i].res = 0]
    /\ UNCHANGED <<inputs, engine, output, pc, error, result, sharedOutputBuffer,
                   visits, writes, metric>>

\* calls of the asynchronous pixelmatch that reach _pixelmatch_node_workers:
\* no output buffer, a shift window, and a second image that differs from the
\* first in one pixel or in all of them
FailCalls(w, h) ==
    {Call(BaseImage(w, h), b, NoOutput, w, h, o) :
        b \in (SecondImages(w, h) \cup {Filled(w, h, Dark)}),
        o \in {oo \in OptionsNoOutput : HasShift(oo)}}

InitFail ==
    \E in \in UNION {FailCalls(w, h) : w \in 1..MaxW, h \in 1..MaxH},
       n \in 1..MaxCpus :
        /\ img1 = in.img1
        /\ img2 = in.img2
        /\ output = in.output
        /\ output0 = in.output
        /\ width = in.width
        /\ height = in.height
        /\ options = in.options
        /\ api = "async"
        /\ alias = "none"
        /\ engine = "none"
        /\ cpus = n
        /\ pc = "start"
        /\ error = "none"
        /\ result = Absent
        /\ sharedOutputBuffer = <<>>
        /\ workers = <<>>
        /\ visits = <<>>
        /\ writes = <<>>
        /\ metric = 0

NextFail ==
    \/ NodeIdentical
    \/ NodeSpawn
    \/ \E i \in DOMAIN workers : WorkerError(i)
    \/ \E i \in DOMAIN workers : OnError(i)
    \/ \E i \in DOMAIN workers : WorkerPost(i)
    \/ \E i \in DOMAIN workers : OnMessage(i)
    \/ Join
    \/ \E i \in DOMAIN workers : WorkerStep(i)

SpecFail == InitFail /\ [][NextFail]_vars

\* the same calls at the default threshold, in which whatever can happen
\* next eventually does: no worker thread that can run
\* and no handler whose event has arrived is left waiting for ever.  Nothing
\* obliges a worker to throw.
InitFair == InitFail /\ options.threshold = Absent

SpecFair == InitFair /\ [][NextFail]_vars /\ WF_vars(NextFail)

\* ------------------------------------- output that is one of the images
\* pixelmatch takes any byte array of the right length as output, also img1
\* or img2 itself: every write to output is then a write to that image, and
\* the loop reads back what it has drawn

\* the images as an iteration reads them when output is the buffer `which`
SeenImg1(which, i1, out) == IF which = "img1" THEN out ELSE i1

SeenImg2(which, i2, out) == IF which = "img2" THEN out ELSE i2

RECURSIVE AliasedLoop(_, _, _, _, _, _, _, _)
AliasedLoop(which, i1, i2, w, h, o, i, acc) ==
    IF i >= w * h THEN acc
    ELSE AliasedLoop(which, i1, i2, w, h, o, i + 1,
             Accumulate(acc,
                        BrowserPixel(SeenImg1(which, i1, acc.out),
                                     SeenImg2(which, i2, acc.out), TRUE, acc.out,
                                     i % w, i \div w, w, h, o),
                        i,
                        MetricUse(SeenImg1(which, i1, acc.out),
                                  SeenImg2(which, i2, acc.out), i)))

\* pixelmatch (browser) called with output = img1 or output = img2: the
\* checks and the identical test run before anything is drawn, and the fast
\* path reads each pixel before it draws it
AliasedPixelmatch(which, a, b, out, w, h, o) ==
    IF ArgError(a, b, out, w, h) # "none"
    THEN Return(ArgError(a, b, out, w, h), Absent, out, <<>>, <<>>, 0)
    ELSE IF Identical(a.px, b.px, w * h)
    THEN BrowserIdentical(a, out, w * h, o)
    ELSE BrowserReturn(out,
             AliasedLoop(which, a.px, b.px, w, h, o, 0,
                         LoopStart(out.px, w * h)))

params == <<output0, width, height, options, api, alias, cpus>>

\* the images after output has become out
ThroughAlias(out) ==
    /\ img1' = IF alias = "img1" THEN out ELSE img1
    /\ img2' = IF alias = "img2" THEN out ELSE img2

AliasedFinish(r) ==
    /\ pc' = IF r.error = "none" THEN "done" ELSE "error"
    /\ error' = r.error
    /\ result' = r.result
    /\ output' = r.output
    /\ ThroughAlias(r.output)
    /\ visits' = r.visits
    /\ writes' = r.writes
    /\ metric' = r.metric
    /\ engine' = "browser"
    /\ UNCHANGED <<params, sharedOutputBuffer, workers>>

AliasedBrowser ==
    /\ pc = "start"
    /\ api = "sync"
    /\ alias # "none"
    /\ AliasedFinish(AliasedPixelmatch(alias, img1, img2, output, width, height,
                                       options))

AliasedNodeSequential ==
    /\ pc = "start"
    /\ api = "async"
    /\ alias # "none"
    /\ NodeArgError(img1, img2, output, width, height) = "none"
    /\ ~UseWorkers(width, height, options)
    /\ AliasedFinish(AliasedPixelmatch(alias, img1, img2, output, width, height,
                                       options))

AliasedNodeIdentical ==
    /\ pc = "start"
    /\ api = "async"
    /\ alias # "none"
    /\ NodeArgError(img1, img2, output, width, height) = "none"
    /\ UseWorkers(width, height, options)
    /\ Identical(img1.px, img2.px, width * height)
    /\ pc' = "done"
    /\ result' = 0
    /\ IF ~options.diffMask
       THEN /\ output' = [output EXCEPT !.px =
                            GrayLoop(img1.px, NodeFastAlpha(options), output.px,
                                     0, width * height)]
            /\ writes' = [i \in 0..(width * height - 1) |-> 1]
       ELSE /\ output' = output
            /\ writes' = Zeros(width * height)
    /\ ThroughAlias(output')
    /\ visits' = Zeros(width * height)
    /\ engine' = "workers"
    /\ UNCHANGED <<params, error, sharedOutputBuffer, workers, metric>>

\* the workers were given copies of the images (workerData is cloned) and
\* the staging buffer; output.set(sharedView) writes the image output is
AliasedJoin ==
    /\ pc = "await"
    /\ alias # "none"
    /\ \A i \in DOMAIN workers : workers[i].st = "resolved"
    /\ workers' = [i \in DOMAIN workers |-> [workers[i] EXCEPT !.st = "terminated"]]
    /\ output' = [output EXCEPT !.px = sharedOutputBuffer]
    /\ ThroughAlias(output')
    /\ result' = SumResults(workers, 0)
    /\ pc' = "done"
    /\ UNCHANGED <<params, engine, error, sharedOutputBuffer, visits, writes,
                   metric>>

InitAlias ==
    \E in \in Inputs, a \in {"sync", "async"}, al \in {"none", "img1", "img2"} :
        /\ al # "none" => (in \in ValidInputs /\ HasOutput(in.output))
        /\ img1 = in.img1
        /\ img2 = in.img2
        /\ output = IF al = "img1" THEN in.img1
                    ELSE IF al = "img2" THEN in.img2 ELSE in.output
        /\ output0 = output
        /\ width = in.width
        /\ height = in.height
        /\ options = in.options
        /\ api = a
        /\ alias = al
        /\ engine = "none"
        /\ cpus = IF a = "sync" THEN 1 ELSE 2
        /\ pc = "start"
        /\ error = "none"
        /\ result = Absent
        /\ sharedOutputBuffer = <<>>
        /\ workers = <<>>
        /\ visits = <<>>
        /\ writes = <<>>
        /\ metric = 0

NextAlias ==
    \/ alias = "none" /\ PixelmatchBrowser
    \/ alias = "none" /\ NodeSequential
    \/ alias = "none" /\ NodeIdentical
    \/ alias = "none" /\ Join
    \/ NodeReject
    \/ NodeSpawn
    \/ \E i \in DOMAIN workers : WorkerStep(i)
    \/ \E i \in DOMAIN workers : WorkerPost(i)
    \/ \E i \in DOMAIN workers : OnMessage(i)
    \/ AliasedBrowser
    \/ AliasedNodeSequential
    \/ AliasedNodeIdentical
    \/ AliasedJoin

SpecAlias == InitAlias /\ [][NextAlias]_vars

\* ----------------------------------------------- src/index.ts (main entry)
\* The main entry point holds its own copy of pixelmatch and of
\* findBestMatchingPixel; the copy of the search starts its two minima at
\* 9999 (ten-thousandths here, as every delta) instead of Infinity.
index_findBestMatchingPixel(i1, i2, x, y, w, h, pos, hs, vs) ==
    ShiftResult(ShiftScan(i1, i2, x, y, w, h, pos, ShiftOffsets(hs, vs),
                          [minAbsDelta |-> InitialMinimum * 10000,
                           minOtherDelta |-> InitialMinimum * 10000]))

index_Escalate(d0, maxDelta, i1, i2, x, y, w, h, o) ==
    IF (d0 > maxDelta \/ d0 < -1 * maxDelta)
       /\ (OptHShift(o) > 0 \/ OptVShift(o) > 0)
    THEN index_findBestMatchingPixel(i1, i2, x, y, w, h, (y * w + x) * 4,
                                     OptHShift(o), OptVShift(o))
    ELSE d0

index_PixelDelta(i1, i2, x, y, w, h, o) ==
    index_Escalate(IF i1[y * w + x] = i2[y * w + x] THEN 0
                   ELSE colorDelta(i1, i2, (y * w + x) * 4, (y * w + x) * 4, FALSE),
                   MaxDelta(o), i1, i2, x, y, w, h, o)

index_Pixel(i1, i2, hasOut, out, x, y, w, h, o) ==
    BrowserDecide(index_PixelDelta(i1, i2, x, y, w, h, o), i1, i2, hasOut, out,
                  x, y, w, h, (y * w + x) * 4, o)

RECURSIVE index_Loop(_, _, _, _, _, _, _, _)
index_Loop(i1, i2, hasOut, w, h, o, i, acc) ==
    IF i >= w * h THEN acc
    ELSE index_Loop(i1, i2, hasOut, w, h, o, i + 1,
             Accumulate(acc,
                        index_Pixel(i1, i2, hasOut, acc.out, i % w, i \div w,
                                    w, h, o),
                        i, MetricUse(i1, i2, i)))

index_pixelmatch(a, b, out, w, h, o) ==
    IF ArgError(a, b, out, w, h) # "none"
    THEN Return(ArgError(a, b, out, w, h), Absent, out, <<>>, <<>>, 0)
    ELSE IF Identical(a.px, b.px, w * h)
    THEN BrowserIdentical(a, out, w * h, o)
    ELSE BrowserReturn(out,
             index_Loop(a.px, b.px, HasOutput(out), w, h, o, 0,
                        LoopStart(out.px, w * h)))

PixelmatchIndex ==
    /\ pc = "start"
    /\ api = "index"
    /\ Finish(index_pixelmatch(img1, img2, output, width, height, options))

\* calls with a shift window on images whose pixels are close (black and
\* dark) or far apart (black and white), through both copies
ShiftFirsts(w, h) == {BaseImage(w, h), Filled(w, h, Black), Filled(w, h, White)}

ShiftSeconds(w, h) ==
    SecondImages(w, h) \cup {Filled(w, h, Black), Filled(w, h, White),
                             Filled(w, h, Dark)}

ShiftCalls(w, h) ==
    {Call(a, b, NoOutput, w, h, Options(t, TRUE, Absent, FALSE, sh)) :
        a \in ShiftFirsts(w, h), b \in ShiftSeconds(w, h),
        t \in {Absent, 60}, sh \in ShiftPairs}

InitShift ==
    \E in \in UNION {ShiftCalls(w, h) : w \in 1..MaxW, h \in 1..MaxH},
       a \in {"sync", "index"} :
        /\ img1 = in.img1
        /\ img2 = in.img2
        /\ output = in.output
        /\ output0 = in.output
        /\ width = in.width
        /\ height = in.height
        /\ options = in.options
        /\ api = a
        /\ alias = "none"
        /\ engine = "none"
        /\ cpus = 1
        /\ pc = "start"
        /\ error = "none"
        /\ result = Absent
        /\ sharedOutputBuffer = <<>>
        /\ workers = <<>>
        /\ visits = <<>>
        /\ writes = <<>>
        /\ metric = 0

NextShift ==
    \/ PixelmatchBrowser
    \/ PixelmatchIndex

SpecShift == InitShift /\ [][NextShift]_vars

\* ------------------------------------------------ lighter and darker pixels
\* calls with an output buffer whose second image has one pixel made darker,
\* lighter or translucent, with and without diffColorAlt
SignSeconds(w, h) ==
    {Poke(BaseImage(w, h), i, p) :
        i \in 0..(w * h - 1), p \in {Black, Dark, White, Glass}}

SignOptions ==
    {[Options(Absent, TRUE, Absent, dm, sh) EXCEPT !.diffColorAlt = alt] :
        dm \in BOOLEAN, sh \in ShiftPairs, alt \in {<<>>, <<0, 255, 0>>}}

SignCalls(w, h) ==
    {Call(BaseImage(w, h), b, Filled(w, h, Sentinel), w, h, o) :
        b \in SignSeconds(w, h), o \in SignOptions}

InitSign ==
    \E in \in UNION {SignCalls(w, h) : w \in 1..MaxW, h \in 1..MaxH},
       a \in {"sync", "async"} :
        /\ img1 = in.img1
        /\ img2 = in.img2
        /\ output = in.output
        /\ output0 = in.output
        /\ width = in.width
        /\ height = in.height
        /\ options = in.options
        /\ api = a
        /\ alias = "none"
        /\ engine = "none"
        /\ cpus = IF a = "sync" THEN 1 ELSE MaxCpus
        /\ pc = "start"
        /\ error = "none"
        /\ result = Absent
        /\ sharedOutputBuffer = <<>>
        /\ workers = <<>>
        /\ visits = <<>>
        /\ writes = <<>>
        /\ metric = 0

NextSign ==
    \/ PixelmatchBrowser
    \/ NodeSequential
    \/ NodeIdentical
    \/ NodeSpawn
    \/ \E i \in DOMAIN workers : WorkerStep(i)
    \/ \E i \in DOMAIN workers : WorkerPost(i)
    \/ \E i \in DOMAIN workers : OnMessage(i)
    \/ Join

SpecSign == InitSign /\ [][NextSign]_vars

\* ------------------------------------------------- images at the size limit
\* Asynchronous calls on small images, whose comparison is carried out, and
\* calls on images around LargeImagePixels pixels.  For the latter only the
\* type and the length of each buffer are held (px is empty): the argument
\* checks and the choice of route read nothing else, and the comparison of
\* a million pixels is not carried out.
Elided(w, h) == Buffer("u8", 4 * w * h, <<>>)

LargeSizes ==
    {<<LargeImagePixels - 1, 1>>, <<LargeImagePixels, 1>>,
     <<LargeImagePixels + 1, 1>>, <<LargeImagePixels \div 2, 2>>,
     <<(LargeImagePixels \div 2) + 1, 2>>}

DispatchCalls ==
    UNION {{Call(BaseImage(w, h), b, NoOutput, w, h, o) :
               b \in SecondImages(w, h), o \in OptionsNoOutput} :
           w \in 1..MaxW, h \in 1..MaxH}
    \cup {Call(Elided(d[1], d[2]), Elided(d[1], d[2]), NoOutput, d[1], d[2],
               Options(Absent, FALSE, Absent, FALSE, sh)) :
            d \in LargeSizes, sh \in ShiftPairs}

InitDispatch ==
    \E in \in DispatchCalls :
        /\ img1 = in.img1
        /\ img2 = in.img2
        /\ output = in.output
        /\ output0 = in.output
        /\ width = in.width
        /\ height = in.height
        /\ options = in.options
        /\ api = "async"
        /\ alias = "none"
        /\ engine = "none"
        /\ cpus = 2
        /\ pc = "start"
        /\ error = "none"
        /\ result = Absent
        /\ sharedOutputBuffer = <<>>
        /\ workers = <<>>
        /\ visits = <<>>
        /\ writes = <<>>
        /\ metric = 0

PixelsHeld == img1.px # <<>>

\* the argument checks and the choice of route of a call whose pixels are
\* not held: the call stops at the point where the engine would start
NodeRoute ==
    /\ pc = "start"
    /\ api = "async"
    /\ ~PixelsHeld
    /\ NodeArgError(img1, img2, output, width, height) = "none"
    /\ pc' = "routed"
    /\ engine' = IF UseWorkers(width, height, options) THEN "workers"
                 ELSE "browser"
    /\ UNCHANGED <<inputs, output, error, result, sharedOutputBuffer, workers,
                   visits, writes, metric>>

NextDispatch ==
    \/ PixelsHeld /\ NodeSequential
    \/ PixelsHeld /\ NodeIdentical
    \/ PixelsHeld /\ NodeSpawn
    \/ \E i \in DOMAIN workers : WorkerStep(i)
    \/ \E i \in DOMAIN workers : WorkerPost(i)
    \/ \E i \in DOMAIN workers : OnMessage(i)
    \/ Join
    \/ NodeRoute

SpecDispatch == InitDispatch /\ [][NextDispatch]_vars

\* ---------------------------------------------------------- opaque colours
\* one-pixel images of fully opaque colours, compared in both orders
Level(j) == (j * 85) % 256

OpaqueColours ==
    {<<Level(r), Level(g), Level(b), 255>> : r \in 0..NumLevels,
                                              g \in 0..NumLevels,
                                              b \in 0..NumLevels}

ColourCalls ==
    {[img1 |-> Filled(1, 1, p), img2 |-> Filled(1, 1, q), output |-> NoOutput,
      width |-> 1, height |-> 1,
      options |-> Options(t, FALSE, Absent, FALSE, <<Absent, Absent>>)] :
        p \in OpaqueColours, q \in OpaqueColours, t \in {Absent, 0, 50}}

InitColour ==
    \E in \in ColourCalls, a \in {"sync", "async"} :
        /\ img1 = in.img1
        /\ img2 = in.img2
        /\ output = in.output
        /\ output0 = in.output
        /\ width = in.width
        /\ height = in.height
        /\ options = in.options
        /\ api = a
        /\ alias = "none"
        /\ engine = "none"
        /\ cpus = 1
        /\ pc = "start"
        /\ error = "none"
        /\ result = Absent
        /\ sharedOutputBuffer = <<>>
        /\ workers = <<>>
        /\ visits = <<>>
        /\ writes = <<>>
        /\ metric = 0

NextColour ==
    \/ PixelmatchBrowser
    \/ NodeSequential

SpecColour == InitColour /\ [][NextColour]_vars

\* ------------------------------------------------ colours with an alpha
\* one-pixel images of opaque and half-transparent colours
\* channel values 51 apart, so that two colours differ by more than the
\* hundredth of a luminance unit the arithmetic here resolves
Shade(j) == (j * 51) % 256

AlphaColours ==
    {<<Shade(r), Shade(g), Shade(b), a>> : r \in 0..NumLevels,
                                            g \in 0..NumLevels,
                                            b \in 0..NumLevels,
                                            a \in {128, 255}}

\* 255 * 10000 times the luminance of pixel px blended onto the background
\* of byte offset k
Luma255(px, k) ==
    2989 * (px[1] * px[4] + BackgroundR(k) * (255 - px[4]))
    + 5866 * (px[2] * px[4] + BackgroundG(k) * (255 - px[4]))
    + 1145 * (px[3] * px[4] + BackgroundB(k) * (255 - px[4]))

\* two colours that are equal, or whose blended luminances are at least one
\* unit (of 255) apart: the differences the fixed-point arithmetic resolves
Resolved(p, q) ==
    p = q \/ Abs(Luma255(p, 0) - Luma255(q, 0)) >= 255 * 10000

DeltaCalls ==
    {[img1 |-> Filled(1, 1, pq[1]), img2 |-> Filled(1, 1, pq[2]),
      output |-> NoOutput, width |-> 1, height |-> 1,
      options |-> Options(Absent, FALSE, Absent, FALSE, <<Absent, Absent>>)] :
        pq \in {c \in AlphaColours \X AlphaColours : Resolved(c[1], c[2])}}

InitDelta ==
    \E in \in DeltaCalls, a \in {"sync", "async"} :
        /\ img1 = in.img1
        /\ img2 = in.img2
        /\ output = in.output
        /\ output0 = in.output
        /\ width = in.width
        /\ height = in.height
        /\ options = in.options
        /\ api = a
        /\ alias = "none"
        /\ engine = "none"
        /\ cpus = 1
        /\ pc = "start"
        /\ error = "none"
        /\ result = Absent
        /\ sharedOutputBuffer = <<>>
        /\ workers = <<>>
        /\ visits = <<>>
        /\ writes = <<>>
        /\ metric = 0

SpecDelta == InitDelta /\ [][NextColour]_vars

\* ------------------------------------------- images with a blended edge
\* a black column, a white area to the right of it, and between them one
\* gray pixel in the top row: the gray pixel has darker and brighter
\* neighbours and none of its own brightness, as a blended edge pixel has
EdgePixel(x, y) ==
    IF x = 0 THEN Black
    ELSE IF x = 1 THEN (IF y = 0 THEN Gray ELSE Black)
    ELSE White

EdgeImage(w, h) ==
    Buffer("u8", 4 * w * h, [i \in 0..(w * h - 1) |-> EdgePixel(i % w, i \div w)])

\* the second image: the first one with one pixel replaced, or with the
\* gray pixel (index 1) made black and one more pixel replaced
EdgeSeconds(w, h) ==
    {Poke(EdgeImage(w, h), i, p) :
        i \in 0..(w * h - 1), p \in {Black, Dark, Gray, White, Glass}}
    \cup
    {Poke(Poke(EdgeImage(w, h), 1, Black), j, p) :
        j \in (0..(w * h - 1)) \ {1}, p \in {Dark, Gray, Glass}}

\* every shift window up to MaxShift, a side of 0 left undefined
EdgeShifts ==
    {<<IF hs = 0 THEN Absent ELSE hs, IF vs = 0 THEN Absent ELSE vs>> :
        hs \in 0..MaxShift, vs \in 0..MaxShift}

EdgeOptions(out) ==
    {Options(t, aa, Absent, dm, sh) :
        t \in {Absent, 0}, aa \in BOOLEAN,
        dm \in (IF HasOutput(out) THEN BOOLEAN ELSE {FALSE}), sh \in EdgeShifts}

EdgeCalls(w, h) ==
    {Call(EdgeImage(w, h), b, out, w, h, o) :
        b \in EdgeSeconds(w, h), out \in {NoOutput, Filled(w, h, Sentinel)},
        o \in EdgeOptions(Filled(w, h, Sentinel))}

\* one worker (two cpus) when the asynchronous call takes the worker path
InitEdge ==
    \E in \in EdgeCalls(EdgeW, EdgeH), a \in {"sync", "async"} :
        /\ ~HasOutput(in.output) => ~in.options.diffMask
        /\ img1 = in.img1
        /\ img2 = in.img2
        /\ output = in.output
        /\ output0 = in.output
        /\ width = in.width
        /\ height = in.height
        /\ options = in.options
        /\ api = a
        /\ alias = "none"
        /\ engine = "none"
        /\ cpus = IF a = "sync" THEN 1 ELSE 2
        /\ pc = "start"
        /\ error = "none"
        /\ result = Absent
        /\ sharedOutputBuffer = <<>>
        /\ workers = <<>>
        /\ visits = <<>>
        /\ writes = <<>>
        /\ metric = 0

NextEdge ==
    \/ PixelmatchBrowser
    \/ NodeSequential
    \/ NodeIdentical
    \/ NodeSpawn
    \/ \E i \in DOMAIN workers : WorkerStep(i)
    \/ \E i \in DOMAIN workers : WorkerPost(i)
    \/ \E i \in DOMAIN workers : OnMessage(i)
    \/ Join

SpecEdge == InitEdge /\ [][NextEdge]_vars

\* the same calls without an output buffer: the count alone
InitCount == InitEdge /\ ~HasOutput(output)

SpecCount == InitCount /\ [][NextEdge]_vars

\* ------------------------------------------------ transparent neighbours
\* the blended-edge image compared with copies in which one pixel is
\* replaced, and with copies whose first column is fully transparent
Clear == <<0, 0, 0, 0>>

ClearWhite == <<255, 255, 255, 0>>

\* the blended-edge image with its first column fully transparent white
ClearEdge(w, h) ==
    Buffer("u8", 4 * w * h,
           [i \in 0..(w * h - 1) |->
               IF i % w = 0 THEN ClearWhite ELSE EdgePixel(i % w, i \div w)])

AASeconds(w, h) ==
    {Poke(EdgeImage(w, h), i, p) :
        i \in 0..(w * h - 1), p \in {Black, Dark, White, Clear}}
    \cup
    {Poke(ClearEdge(w, h), i, p) : i \in 0..(w * h - 1), p \in {Clear, Gray}}

AACalls(w, h) ==
    {Call(EdgeImage(w, h), b, NoOutput, w, h,
          Options(Absent, aa, Absent, FALSE, sh)) :
        b \in AASeconds(w, h), aa \in BOOLEAN,
        sh \in {<<Absent, Absent>>, <<1, Absent>>}}

InitAA ==
    \E in \in AACalls(EdgeW, EdgeH) \cup AACalls(EdgeW, EdgeH + 1),
       a \in {"sync", "async"} :
        /\ img1 = in.img1
        /\ img2 = in.img2
        /\ output = in.output
        /\ output0 = in.output
        /\ width = in.width
        /\ height = in.height
        /\ options = in.options
        /\ api = a
        /\ alias = "none"
        /\ engine = "none"
        /\ cpus = IF a = "sync" THEN 1 ELSE 2
        /\ pc = "start"
        /\ error = "none"
        /\ result = Absent
        /\ sharedOutputBuffer = <<>>
        /\ workers = <<>>
        /\ visits = <<>>
        /\ writes = <<>>
        /\ metric = 0

NextAA ==
    \/ PixelmatchBrowser
    \/ NodeSequential
    \/ NodeSpawn
    \/ \E i \in DOMAIN workers : WorkerStep(i)
    \/ \E i \in DOMAIN workers : WorkerPost(i)
    \/ \E i \in DOMAIN workers : OnMessage(i)
    \/ Join

SpecAA == InitAA /\ [][NextAA]_vars

\* ================================================================= claims
Done == pc = "done"

Returned == pc \in {"done", "error"}

SameImages == img1.px = img2.px

NoShiftWindow == OptHShift(options) = 0 /\ OptVShift(options) = 0

OnWorkerPath == api = "async" /\ UseWorkers(width, height, options)

Pixels == 0..(width * height - 1)

\* the sequential engine run on the inputs of the current call
Sequential == pixelmatch(img1, img2, output0, width, height, options)

\* C1: comparing an image with itself, with threshold >= 0 and no shift
\* window, returns 0 (with or without an output buffer, sync or async).
C1_SelfCompareIsZero ==
    (Done /\ SameImages /\ OptThreshold(options) >= 0 /\ NoShiftWindow)
        => result = 0

C1_Witness ==
    /\ Done
    /\ SameImages
    /\ NoShiftWindow
    /\ options.threshold = 0
    /\ HasOutput(output0)
    /\ result = 0

\* C2: the count returned by the band workers equals the count the
\* sequential engine returns for the same images, size and options.
C2_ParallelCountEqualsSequential ==
    (Done /\ OnWorkerPath) => result = Sequential.result

C2_Witness ==
    /\ Done
    /\ OnWorkerPath
    /\ Cardinality(DOMAIN workers) >= 2
    /\ \A i \in DOMAIN workers : workers[i].st = "terminated"
    /\ result > 0

\* C3: after the asynchronous compare on the worker path the caller's
\* output buffer holds exactly what the sequential compare leaves in it when
\* started from the same initial contents.
C3_ParallelOutputEqualsSequential ==
    (Done /\ OnWorkerPath) => output = Sequential.output

\* C4: bad arguments are rejected with the format error first, else the
\* size-mismatch error, else the dimension-mismatch error; lengths 8 and 9
\* with width 2, height 1 give the size-mismatch error.
BadFormat ==
    \/ img1.kind # "u8"
    \/ img2.kind # "u8"
    \/ (output0.kind # "null" /\ output0.kind # "u8")

BadSize ==
    \/ img1.len # img2.len
    \/ (output0.kind # "null" /\ output0.len # img1.len)

BadDimension == img1.len # width * height * 4

C4_ErrorOrder ==
    Returned =>
        /\ BadFormat => (pc = "error" /\ error = "format")
        /\ (~BadFormat /\ BadSize) => (pc = "error" /\ error = "size")
        /\ (~BadFormat /\ ~BadSize /\ BadDimension)
              => (pc = "error" /\ error = "dimension")
        /\ (~BadFormat /\ ~BadSize /\ ~BadDimension)
              => (pc = "done" /\ error = "none")
        /\ (img1.len = 8 /\ img2.len = 9 /\ width = 2 /\ height = 1
            /\ ~BadFormat) => error = "size"

C4_Witness ==
    /\ pc = "error"
    /\ error = "size"
    /\ ~BadFormat
    /\ BadSize
    /\ BadDimension
    /\ width = 2
    /\ height = 1

\* C5: when compare fails with one of the three errors, no pixel has been
\* classified, no worker has been started and the output buffer is unchanged.
C5_FailFast ==
    pc = "error" =>
        /\ output = output0
        /\ workers = <<>>
        /\ sharedOutputBuffer = <<>>
        /\ visits = <<>>
        /\ writes = <<>>
        /\ metric = 0
        /\ result = Absent

C5_Witness ==
    /\ pc = "error"
    /\ error = "dimension"
    /\ HasOutput(output0)
    /\ SameImages
    /\ output = output0

\* C6: the returned count is the count the same call returns with
\* output = null.
C6_CountIgnoresOutput ==
    Done => result = pixelmatch(img1, img2, NoOutput, width, height, options).result

C6_Witness ==
    /\ Done
    /\ HasOutput(output0)
    /\ output # output0
    /\ result > 0

\* C7: for identical images with diffMask = false and an output buffer,
\* compare returns 0 and every output pixel is the grayscale blend of the
\* img1 pixel with the configured alpha (0.1 only when alpha is absent) and
\* output alpha 255, on the sequential path and on the worker path.
C7_IdenticalIsGrayWithConfiguredAlpha ==
    (Done /\ SameImages /\ HasOutput(output0) /\ ~options.diffMask) =>
        /\ result = 0
        /\ \A i \in Pixels :
              output.px[i] = <<GrayVal(img1.px[i], OptAlpha(options)),
                               GrayVal(img1.px[i], OptAlpha(options)),
                               GrayVal(img1.px[i], OptAlpha(options)), 255>>

\* C8: for identical images with diffMask = true, compare returns 0, leaves
\* the output buffer unchanged and never evaluates the colour metric, on
\* the sequential path and on the worker path.
C8_IdenticalMaskUntouched ==
    (Done /\ SameImages /\ options.diffMask) =>
        /\ result = 0
        /\ output = output0
        /\ metric = 0
        /\ \A i \in Pixels : writes[i] = 0

C8_Witness ==
    /\ Done
    /\ SameImages
    /\ options.diffMask
    /\ HasOutput(output0)
    /\ OnWorkerPath
    /\ output = output0

\* C9 as stated: whenever compare completes with an output buffer, every
\* pixel position has been written by exactly one decision branch, also with
\* diffMask = true.
C9_EveryPixelWrittenOnce ==
    (Done /\ HasOutput(output0)) => \A i \in Pixels : writes[i] = 1

RECURSIVE SumUpTo(_, _)
SumUpTo(f, n) == IF n < 0 THEN 0 ELSE f[n] + SumUpTo(f, n - 1)

\* C9 amended: with diffMask = false every pixel position is written by
\* exactly one decision branch; with diffMask = true no position is written
\* more than once and the positions written are as many as the pixels
\* counted (the diffColor/diffColorAlt branch), the others are not written.
C9_WrittenOnceUnlessMask ==
    (Done /\ HasOutput(output0)) =>
        IF options.diffMask
        THEN /\ \A i \in Pixels : writes[i] <= 1
             /\ SumUpTo(writes, width * height - 1) = result
        ELSE \A i \in Pixels : writes[i] = 1

C9_Witness ==
    /\ Done
    /\ HasOutput(output0)
    /\ options.diffMask
    /\ OnWorkerPath
    /\ result > 0
    /\ \E i \in Pixels : writes[i] = 0
    /\ \E i \in Pixels : writes[i] = 1

\* C10: the bands given to the workers are ranges of rows that do not
\* overlap, follow one another in order and together hold exactly the rows
\* 0..height-1, so every pixel is classified exactly once; also when there
\* are more workers than rows.
BandRows(i) == {y \in 0..(workers[i].endY - 1) : y >= workers[i].startY}

RowsBefore(i) == UNION {BandRows(j) : j \in {k \in DOMAIN workers : k < i}}

C10_BandsPartitionRows ==
    workers # <<>> =>
        /\ DOMAIN workers = 0..(NumWorkers(cpus) - 1)
        /\ \A i \in DOMAIN workers :
              /\ workers[i].startY = i * CeilDiv(height, NumWorkers(cpus))
              /\ BandRows(i) \subseteq 0..(height - 1)
              /\ BandRows(i) # {} => workers[i].startY = Cardinality(RowsBefore(i))
        /\ \A i, j \in DOMAIN workers : i # j => BandRows(i) \cap BandRows(j) = {}
        /\ UNION {BandRows(i) : i \in DOMAIN workers} = 0..(height - 1)
        /\ Done => \A p \in Pixels : visits[p] = 1

C10_Witness ==
    /\ Done
    /\ workers # <<>>
    /\ Cardinality(DOMAIN workers) > height
    /\ \E i \in DOMAIN workers : BandRows(i) = {}
    /\ \A p \in Pixels : visits[p] = 1

\* C11 as stated: no step of compare changes any byte of img1 or img2.
C11_InputsNeverChange == [][img1' = img1 /\ img2' = img2]_vars

\* C11 amended: no step of compare changes img1 or img2 unless the caller
\* passed that very image as the output buffer; an image that is not the
\* output buffer is never changed (sequential, worker, fast and error path).
C11_InputsChangeOnlyAsOutput ==
    [][/\ alias # "img1" => img1' = img1
       /\ alias # "img2" => img2' = img2]_vars

C11_Witness ==
    /\ Done
    /\ alias = "none"
    /\ OnWorkerPath
    /\ output # output0
    /\ img1 = BaseImage(width, height)
    /\ img2 # img1

\* C12: the returned count is at least 0 and at most width*height, from
\* the sequential engine and from the sum of the band counts.
C12_CountWithinPixels ==
    Done => (0 <= result /\ result <= width * height)

C12_Witness ==
    /\ Done
    /\ OnWorkerPath
    /\ Cardinality(DOMAIN workers) >= 2
    /\ result = width * height

\* the bands run to completion one after another, in row order
RECURSIVE RowOrderRun(_, _, _, _, _, _, _, _)
RowOrderRun(i1, i2, hasOut, w, h, o, i, acc) ==
    IF i >= w * h THEN acc
    ELSE RowOrderRun(i1, i2, hasOut, w, h, o, i + 1,
             Accumulate(acc,
                        WorkerPixel(i1, i2, hasOut, acc.out, i % w, i \div w,
                                    w, h, o),
                        i, MetricUse(i1, i2, i)))

InRowOrder ==
    RowOrderRun(img1.px, img2.px, HasOutput(output0), width, height, options, 0,
                LoopStart(IF HasOutput(output0)
                          THEN [i \in 0..((output0.len \div 4) - 1) |-> <<0, 0, 0, 0>>]
                          ELSE <<>>,
                          width * height))

\* C13: when the band workers have run, in whatever order they ran,
\* interleaved and completed, the returned count and the contents of the
\* caller's output buffer are those of the run in which the bands run one
\* after another in row order: they depend on the inputs only.
C13_OrderIndependent ==
    (Done /\ workers # <<>>) =>
        /\ result = InRowOrder.diff
        /\ output = IF HasOutput(output0)
                    THEN [output0 EXCEPT !.px = InRowOrder.out]
                    ELSE output0

C13_Witness ==
    /\ Done
    /\ HasOutput(output0)
    /\ result > 0
    /\ Cardinality({i \in DOMAIN workers :
                       workers[i].endY > workers[i].startY}) >= 2
    /\ \A p \in 0..(width * height - 1) : writes[p] = 1

\* the pixels whose staging bytes or draw count a step changes
Touched ==
    {p \in Pixels :
        \/ writes'[p] # writes[p]
        \/ (sharedOutputBuffer # <<>> /\ sharedOutputBuffer'[p] # sharedOutputBuffer[p])}

\* C14: a step of band worker i changes only staging pixels of rows
\* startY..endY-1 of its band, the bands are pairwise disjoint and no pixel
\* is drawn twice, so no staging byte is written by two workers; the step
\* changes no other worker's state, no image and not the caller's output.
C14_WorkersWriteOwnRows ==
    [][(pc = "await" /\ pc' = "await") =>
         /\ \A i, j \in DOMAIN workers :
               i # j => BandRows(i) \cap BandRows(j) = {}
         /\ \A p \in Pixels : writes'[p] <= 1
         /\ \A i \in DOMAIN workers :
               workers'[i] # workers[i] =>
                  /\ \A p \in Touched : (p \div width) \in BandRows(i)
                  /\ \A j \in DOMAIN workers : j # i => workers'[j] = workers[j]
                  /\ img1' = img1 /\ img2' = img2 /\ output' = output
         /\ (\A i \in DOMAIN workers : workers'[i] = workers[i]) => Touched = {}
      ]_vars

C14_Witness ==
    /\ pc = "await"
    /\ sharedOutputBuffer # <<>>
    /\ \E i, j \in DOMAIN workers :
          /\ i # j
          /\ \E p \in Pixels : (p \div width) \in BandRows(i) /\ writes[p] = 1
          /\ \E q \in Pixels : (q \div width) \in BandRows(j) /\ writes[q] = 1
          /\ workers[j].st = "running"

\* the count of the pixels lo..hi-1, each classified as the worker does
RECURSIVE PixelsCounted(_, _)
PixelsCounted(lo, hi) ==
    IF lo >= hi THEN 0
    ELSE WorkerPixel(img1.px, img2.px, FALSE, <<>>, lo % width, lo \div width,
                     width, height, options).diff
         + PixelsCounted(lo + 1, hi)

BandCount(i) ==
    IF workers[i].failed \/ workers[i].endY <= workers[i].startY THEN 0
    ELSE PixelsCounted(workers[i].startY * width, workers[i].endY * width)

RECURSIVE SumBandCounts(_)
SumBandCounts(i) ==
    IF i \notin DOMAIN workers THEN 0 ELSE BandCount(i) + SumBandCounts(i + 1)

\* C15: once the workers are started compare never ends with an error, also
\* when workers throw; it returns the sum in which each band whose worker
\* threw counts 0 and every other band counts its differing pixels.
C15_FailedBandCountsZero ==
    /\ workers # <<>> => (pc # "error" /\ error = "none")
    /\ (Done /\ workers # <<>>) => result = SumBandCounts(0)

C15_Witness ==
    /\ Done
    /\ error = "none"
    /\ \E i, j \in DOMAIN workers :
          /\ workers[i].failed
          /\ workers[i].diff > 0
          /\ ~workers[j].failed
          /\ workers[j].diff > 0
          /\ result = workers[j].diff

\* pixel p is above the threshold after the shift search, and anti-aliased
AboveMax(p) ==
    Abs(PixelDelta(img1.px, img2.px, p % width, p \div width, width, height,
                   options)) > MaxDelta(options)

AntiAliased(p) == IsAA(img1.px, img2.px, p % width, p \div width, width, height)

\* the count the sequential engine returns for the current images under o
CountAt(o) == pixelmatch(img1, img2, NoOutput, width, height, o).result

Thresholds == {0, 10, 50, 100}

\* C16: the count of a completed compare is at least the count for the
\* same images and options with any larger threshold in 0..1 (thresholds in
\* hundredths), with and without a shift window and anti-alias suppression.
C16_ThresholdMonotone ==
    Done => \A t2 \in Thresholds :
               t2 >= OptThreshold(options) =>
                  CountAt([options EXCEPT !.threshold = t2]) <= result

C16_Witness ==
    /\ Done
    /\ HasShift(options)
    /\ ~options.includeAA
    /\ \E p \in Pixels : AboveMax(p) /\ AntiAliased(p)
    /\ OptThreshold(options) = 0
    /\ CountAt([options EXCEPT !.threshold = 50]) < result
    /\ CountAt([options EXCEPT !.threshold = 10]) = result

\* the options with the shift window (hs, vs)
Shifted(hs, vs) ==
    [options EXCEPT !.horizontalShiftPixels = hs, !.verticalShiftPixels = vs]

\* C17: the count of a completed compare is at least the count for the
\* same images, threshold and options with any window at least as large in
\* both directions, also from no window at all to a positive one.
C17_ShiftMonotone ==
    Done => \A h2 \in OptHShift(options)..MaxShift,
               v2 \in OptVShift(options)..MaxShift :
                  CountAt(Shifted(h2, v2)) <= result

C17_Witness ==
    /\ Done
    /\ OptHShift(options) = 1
    /\ OptVShift(options) = 0
    /\ result > 0
    /\ CountAt(Shifted(1, 1)) < result

\* what pixel p of the buffer the engine draws into held before the loop:
\* the caller's bytes, or the zero-filled staging buffer of the workers
BeforeLoop(p) == IF workers # <<>> THEN <<0, 0, 0, 0>> ELSE output0.px[p]

Painted(c) == <<c[1], c[2], c[3], 255>>

SignedColor(p) ==
    IF PixelDelta(img1.px, img2.px, p % width, p \div width, width, height,
                  options) < 0
    THEN OptAltColor(options) ELSE DiffColor

Opaque(p) == img1.px[p][4] = 255 /\ img2.px[p][4] = 255

\* C18: for two fully opaque pixels the magnitude of colorDelta(p, q, false)
\* equals that of colorDelta(q, p, false), so a comparison counts the same
\* pixels whichever image is passed first.
C18_SwapKeepsMagnitude ==
    /\ \A p \in Pixels :
          Opaque(p) =>
             Abs(colorDelta(img1.px, img2.px, 4 * p, 4 * p, FALSE))
                = Abs(colorDelta(img2.px, img1.px, 4 * p, 4 * p, FALSE))
    /\ (Done /\ \A p \in Pixels : Opaque(p)) =>
          result = pixelmatch(img2, img1, NoOutput, width, height, options).result

C18_Witness ==
    /\ Done
    /\ Opaque(0)
    /\ result = 1
    /\ colorDelta(img1.px, img2.px, 0, 0, FALSE) < 0
    /\ colorDelta(img2.px, img1.px, 0, 0, FALSE) > 0

ShiftConfigured ==
    \/ options.horizontalShiftPixels \notin {Absent, 0}
    \/ options.verticalShiftPixels \notin {Absent, 0}

\* C20: an asynchronous compare takes the worker path exactly when
\* width * height > 1,000,000 or one of the two shift options is non-zero;
\* otherwise the sequential engine runs and, on images that differ, visits
\* every pixel once; exactly 1,000,000 pixels without a shift window is
\* compared sequentially.
C20_Dispatch ==
    (api = "async" /\ engine # "none") =>
        /\ engine = "workers" <=>
              (width * height > LargeImagePixels \/ ShiftConfigured)
        /\ (width * height = LargeImagePixels /\ ~ShiftConfigured) =>
              engine = "browser"
        /\ (engine = "browser" /\ Done /\ img1 # img2) =>
              \A p \in Pixels : visits[p] = 1

C20_Witness ==
    /\ pc = "routed"
    /\ api = "async"
    /\ width * height = LargeImagePixels
    /\ ~ShiftConfigured
    /\ engine = "browser"

DeltaOf(p) ==
    PixelDelta(img1.px, img2.px, p % width, p \div width, width, height, options)

\* the pixels (x + dx, y + dy) of the shift window of pixel p that lie inside
\* the image
WindowOf(p) ==
    {q \in Pixels :
        /\ Abs((q % width) - (p % width)) <= OptHShift(options)
        /\ Abs((q \div width) - (p \div width)) <= OptVShift(options)}

DirectDelta(p) ==
    IF img1.px[p] = img2.px[p] THEN 0
    ELSE colorDelta(img1.px, img2.px, 4 * p, 4 * p, FALSE)

\* the pairs <<pixel of img1, pixel of img2>> whose delta can classify p
MatchedPairs(p) ==
    IF Abs(DirectDelta(p)) > MaxDelta(options)
       /\ (OptHShift(options) > 0 \/ OptVShift(options) > 0)
    THEN {<<p, q>> : q \in WindowOf(p)} \cup {<<q, p>> : q \in WindowOf(p)}
    ELSE {<<p, p>>}

PairDelta(pr) ==
    IF pr[1] = pr[2] THEN DirectDelta(pr[1])
    ELSE colorDelta(img1.px, img2.px, 4 * pr[1], 4 * pr[2], FALSE)

SecondDarker(pr) ==
    Luma255(img2.px[pr[2]], 4 * pr[1]) < Luma255(img1.px[pr[1]], 4 * pr[1])

ChannelDiff(p1, p2, c, bg) ==
    IF p1[4] < 255 \/ p2[4] < 255
    THEN SDiv(100 * (p1[c] * p1[4] - p2[c] * p2[4] - bg * (p1[4] - p2[4])), 255)
    ELSE 100 * (p1[c] - p2[c])

LumaDiff(dr, dg, db) == SDiv(dr * 2989 + dg * 5866 + db * 1145, 10000)

InPhase(dr, dg, db) == SDiv(dr * 5960 - dg * 2742 - db * 3218, 10000)

Quadrature(dr, dg, db) == SDiv(dr * 2115 - dg * 5226 + db * 3111, 10000)

SumOfSquares(dr, dg, db) ==
    5053 * ((LumaDiff(dr, dg, db) * LumaDiff(dr, dg, db)) \div 10000)
    + 2990 * ((InPhase(dr, dg, db) * InPhase(dr, dg, db)) \div 10000)
    + 1957 * ((Quadrature(dr, dg, db) * Quadrature(dr, dg, db)) \div 10000)

Dr0 == ChannelDiff(img1.px[0], img2.px[0], 1, BackgroundR(0))

Dg0 == ChannelDiff(img1.px[0], img2.px[0], 2, BackgroundG(0))

Db0 == ChannelDiff(img1.px[0], img2.px[0], 3, BackgroundB(0))

Delta0 == colorDelta(img1.px, img2.px, 0, 0, FALSE)

ForwardDeltas(p) ==
    {colorDelta(img1.px, img2.px, 4 * p, 4 * q, FALSE) : q \in WindowOf(p)}

BackwardDeltas(p) ==
    {colorDelta(img1.px, img2.px, 4 * q, 4 * p, FALSE) : q \in WindowOf(p)}

MinMagnitude(ds) == CHOOSE m \in {Abs(d) : d \in ds} : \A d \in ds : m <= Abs(d)

\* r is what the search over the window of p has to return
LargerOfMinima(r, p) ==
    IF MinMagnitude(ForwardDeltas(p)) > MinMagnitude(BackwardDeltas(p))
    THEN r \in ForwardDeltas(p) /\ Abs(r) = MinMagnitude(ForwardDeltas(p))
    ELSE r \in BackwardDeltas(p) /\ Abs(r) = MinMagnitude(BackwardDeltas(p))

Searched(p) ==
    IF api = "index"
    THEN index_findBestMatchingPixel(img1.px, img2.px, p % width, p \div width,
                                     width, height, 4 * p, OptHShift(options),
                                     OptVShift(options))
    ELSE findBestMatchingPixel(img1.px, img2.px, p % width, p \div width,
                               width, height, 4 * p, OptHShift(options),
                               OptVShift(options))

\* C23: findBestMatchingPixel takes the minimum-magnitude delta of img1 at
\* (x, y) against img2 at every offset of the window inside the image, and
\* the minimum-magnitude delta of img1 at those offsets against img2 at
\* (x, y), and returns the one of the two minima with the larger magnitude,
\* whatever the magnitude of the deltas.
C23_LargerOfTwoMinima ==
    (Done /\ img1 # img2) =>
        \A p \in Pixels :
            Abs(DirectDelta(p)) > MaxDelta(options) /\ HasShift(options)
                => LargerOfMinima(Searched(p), p)

\* the pixels of the clamped 3x3 box around pixel c, c left out
Around(c) ==
    {n \in Pixels \ {c} :
        /\ Abs((n % width) - (c % width)) <= 1
        /\ Abs((n \div width) - (c \div width)) <= 1}

\* 1 for a pixel of the first or last row or column, else 0
BorderStart(c) ==
    IF c % width = 0 \/ c % width = width - 1
       \/ c \div width = 0 \/ c \div width = height - 1
    THEN 1 ELSE 0

\* the brightness of the centre c minus that of its neighbour n in image im
Brightness(im, c, n) == colorDelta(im, im, 4 * c, 4 * n, TRUE)

ExactlyEqual(im, c) == {n \in Around(c) : im[n] = im[c]}

SameBrightness(im, c) == {n \in Around(c) : Brightness(im, c, n) = 0}

HasDarker(im, c) == \E n \in Around(c) : Brightness(im, c, n) > 0

HasBrighter(im, c) == \E n \in Around(c) : Brightness(im, c, n) < 0

IsAntialiased(im, other, c) ==
    antialiased(im, c % width, c \div width, width, height, im, other)

BothOrders == {<<img1.px, img2.px>>, <<img2.px, img1.px>>}

\* C24 as stated: a neighbour counts as equal only when it is exactly equal
\* to the centre pixel (border pixels start the count at 1), and the
\* function returns false whenever that count exceeds 2, or no neighbour is
\* strictly darker, or none is strictly brighter than the centre.
C24_CountsExactlyEqual ==
    \A io \in BothOrders : \A c \in Pixels :
        /\ SameBrightness(io[1], c) = ExactlyEqual(io[1], c)
        /\ (\/ BorderStart(c) + Cardinality(ExactlyEqual(io[1], c)) > 2
            \/ ~HasDarker(io[1], c)
            \/ ~HasBrighter(io[1], c)) => ~IsAntialiased(io[1], io[2], c)

\* C24 amended: a neighbour counts as equal when its brightness delta against
\* the centre is 0, which is so for every neighbour exactly equal to the
\* centre and also for two fully transparent pixels of different colours;
\* border pixels start the count at 1, and the function returns false
\* whenever the count exceeds 2, or no neighbour is strictly darker, or none
\* is strictly brighter than the centre.
C24_CountsSameBrightness ==
    \A io \in BothOrders : \A c \in Pixels :
        /\ ExactlyEqual(io[1], c) \subseteq SameBrightness(io[1], c)
        /\ \A n \in Around(c) :
              (io[1][n][4] = 0 /\ io[1][c][4] = 0) => n \in SameBrightness(io[1], c)
        /\ (\/ BorderStart(c) + Cardinality(SameBrightness(io[1], c)) > 2
            \/ ~HasDarker(io[1], c)
            \/ ~HasBrighter(io[1], c)) => ~IsAntialiased(io[1], io[2], c)

C24_Witness ==
    /\ Done
    /\ \E c \in Pixels :
          /\ AboveMax(c)
          /\ BorderStart(c) + Cardinality(ExactlyEqual(img2.px, c)) <= 2
          /\ BorderStart(c) + Cardinality(SameBrightness(img2.px, c)) > 2
          /\ HasDarker(img2.px, c)
          /\ ~IsAntialiased(img2.px, img1.px, c)

\* the place of pixel n in the order of the two nested loops (x outer)
ScanRank(n) == (n % width) * height + (n \div width)

\* the first neighbour of c in loop order whose brightness is the lowest
DarkestNeighbour(im, c) ==
    CHOOSE n \in Around(c) : \A m \in Around(c) :
        \/ Brightness(im, c, m) < Brightness(im, c, n)
        \/ Brightness(im, c, m) = Brightness(im, c, n) /\ ScanRank(m) >= ScanRank(n)

\* the first neighbour of c in loop order whose brightness is the highest
BrightestNeighbour(im, c) ==
    CHOOSE n \in Around(c) : \A m \in Around(c) :
        \/ Brightness(im, c, m) > Brightness(im, c, n)
        \/ Brightness(im, c, m) = Brightness(im, c, n) /\ ScanRank(m) >= ScanRank(n)

\* more than 2 neighbours of n hold exactly the pixel of n, a border
\* position starting the count at 1
ManySiblings(im, n) == BorderStart(n) + Cardinality(ExactlyEqual(im, n)) > 2

ManyInBoth(io, n) == ManySiblings(io[1], n) /\ ManySiblings(io[2], n)

\* at most 2 neighbours counted as equal, one darker and one brighter
Undecided(im, c) ==
    /\ BorderStart(c) + Cardinality(SameBrightness(im, c)) <= 2
    /\ HasDarker(im, c)
    /\ HasBrighter(im, c)

\* C25: when the centre pixel has at most 2 equal neighbours and both a
\* strictly darker and a strictly brighter neighbour, isAntialiased returns
\* true exactly when the darkest neighbour's position, or the brightest
\* neighbour's position, has more than 2 identical neighbours in both images
\* (clamped 3x3 box, exact equality of the pixels, border positions start at 1).
C25_SiblingsDecide ==
    \A io \in BothOrders : \A c \in Pixels :
        Undecided(io[1], c) =>
            (IsAntialiased(io[1], io[2], c)
                <=> \/ ManyInBoth(io, DarkestNeighbour(io[1], c))
                    \/ ManyInBoth(io, BrightestNeighbour(io[1], c)))

C25_Witness ==
    /\ Done
    /\ \E c \in Pixels : \E io \in BothOrders :
          /\ AboveMax(c)
          /\ Undecided(io[1], c)
          /\ IsAntialiased(io[1], io[2], c)
    /\ \E c \in Pixels : \E io \in BothOrders :
          /\ Undecided(io[1], c)
          /\ ~IsAntialiased(io[1], io[2], c)

\* the gray pixel drawn for pixel p of the first image
GrayOfFirst(p) ==
    <<GrayVal(img1.px[p], OptAlpha(options)), GrayVal(img1.px[p], OptAlpha(options)),
      GrayVal(img1.px[p], OptAlpha(options)), 255>>

\* C26: in a compare that ran the per-pixel loop, a pixel whose final
\* |delta| is at most maxDelta is never counted; it is painted the
\* alpha-blended gray of the img1 pixel when there is an output and diffMask
\* is false, and otherwise no branch writes its output bytes.
C26_SimilarPixel ==
    (Done /\ ~SameImages) =>
        /\ result <= Cardinality({p \in Pixels : AboveMax(p)})
        /\ ~HasOutput(output0) => output = output0
        /\ \A p \in Pixels :
              (HasOutput(output0) /\ ~AboveMax(p)) =>
                 IF options.diffMask
                 THEN writes[p] = 0 /\ output.px[p] = BeforeLoop(p)
                 ELSE writes[p] = 1 /\ output.px[p] = GrayOfFirst(p)

C26_Witness ==
    /\ Done
    /\ HasOutput(output0)
    /\ ~options.diffMask
    /\ options.alpha = 50
    /\ result = 0
    /\ \E p \in Pixels :
          /\ img1.px[p] # img2.px[p]
          /\ ~AboveMax(p)
          /\ DeltaOf(p) # 0
          /\ output.px[p] = GrayOfFirst(p)
          /\ output.px[p] # output0.px[p]

\* every worker has reported a count (res = diff) or failed (res = 0)
AllSettled == \A i \in DOMAIN workers : workers[i].res # Absent

\* C27: on the worker path compare is suspended only at the join on the
\* band results; it never returns before every one of the N band workers
\* has reported a count or failed, and in every execution it eventually
\* returns a count.
C27_JoinThenReturn ==
    /\ [](pc \in {"start", "await", "done"})
    /\ [](pc = "await" => Cardinality(DOMAIN workers) = NumWorkers(cpus))
    /\ [](Done => AllSettled)
    /\ <>(Done /\ result \in 0..(width * height))

C27_Witness ==
    /\ Done
    /\ Cardinality(DOMAIN workers) = 2
    /\ \E i \in DOMAIN workers : workers[i].failed
    /\ \E i \in DOMAIN workers : ~workers[i].failed /\ workers[i].res > 0
    /\ AllSettled

InsideImage(pts) ==
    \A k \in 1..Len(pts) :
        /\ pts[k][1] \in 0..(width - 1)
        /\ pts[k][2] \in 0..(height - 1)
        /\ pts[k][2] * width + pts[k][1] \in Pixels

\* the pixels antialiased and hasManySiblings read around pixel c
BoxOf(c) == Neighbours(c % width, c \div width, width, height)

\* the offsets among offs that pass the test of findBestMatchingPixel at c
InBounds(c, offs) ==
    {j \in DOMAIN offs :
        ~(\/ (c % width) + offs[j][1] < 0
          \/ (c % width) + offs[j][1] >= width
          \/ (c \div width) + offs[j][2] < 0
          \/ (c \div width) + offs[j][2] >= height)}

\* shiftedPos / 4 of every offset that passes the test
ShiftedTo(c, offs) ==
    {(4 * c + (width * offs[k][2] + offs[k][1]) * 4) \div 4 : k \in InBounds(c, offs)}

\* the pixel indices findBestMatchingPixel reads for pixel c under the
\* window (hs, vs)
ShiftReads(c, hs, vs) ==
    UNION {ShiftedTo(c, offs) : offs \in {ShiftOffsets(hs, vs)}}

\* the rows of pixels read for pixel c under the configured window
RowsRead(c) ==
    {q \div width : q \in ShiftReads(c, OptHShift(options), OptVShift(options))}
    \cup UNION {{box[k][2] : k \in DOMAIN box} : box \in {BoxOf(c)}}

\* the reads of findBestMatchingPixel for pixel c under the window (hs, vs)
\* are inside the image and include c itself
WindowInside(c, hs, vs) ==
    \A reads \in {ShiftReads(c, hs, vs)} : c \in reads /\ reads \subseteq Pixels

\* the reads of antialiased around pixel c, and those of hasManySiblings
\* around each neighbour of c, are inside the image
BoxInside(c) ==
    \A box \in {BoxOf(c)} :
        /\ InsideImage(box)
        /\ \A k \in DOMAIN box :
              \A around \in {BoxOf(box[k][2] * width + box[k][1])} :
                  InsideImage(around)

\* C29: for every pixel of a valid image and every window up to one more
\* than MaxShift, every pixel index read by findBestMatchingPixel, by
\* antialiased and by hasManySiblings (at a neighbour of the pixel) lies in
\* 0..width*height-1; that includes border pixels and the pixels a band
\* worker reads, for the pixel it is at, in rows outside its band.
C29_ReadsInsideImage ==
    /\ (pc = "start" /\ img1.len = 4 * width * height) =>
          \A c \in Pixels :
              /\ BoxInside(c)
              /\ \A hs \in 0..(MaxShift + 1), vs \in 0..(MaxShift + 1) :
                    WindowInside(c, hs, vs)
    /\ pc = "await" =>
          \A i \in DOMAIN workers :
              (workers[i].st = "running" /\ workers[i].y < workers[i].endY) =>
                  /\ BoxInside(workers[i].y * width + workers[i].x)
                  /\ WindowInside(workers[i].y * width + workers[i].x,
                                  OptHShift(options), OptVShift(options))
                  /\ RowsRead(workers[i].y * width + workers[i].x)
                        \subseteq 0..(height - 1)

C29_Witness ==
    /\ pc = "await"
    /\ OptVShift(options) > 0
    /\ \E i \in DOMAIN workers :
          /\ workers[i].st = "running"
          /\ workers[i].y < workers[i].endY
          /\ \E r \in RowsRead(workers[i].y * width + workers[i].x) :
                r < workers[i].startY \/ r >= workers[i].endY

AllOpaque == \A p \in Pixels : Opaque(p)

\* the count of the sequential engine with the two images exchanged
SwappedCount == pixelmatch(img2, img1, NoOutput, width, height, options).result

\* C30: when every pixel of both images is fully opaque, the count of a
\* completed compare without output equals the count for the same call with
\* the two images exchanged, for every options record, with and without a
\* shift window and for both values of includeAA.
C30_CountSymmetric ==
    (Done /\ AllOpaque) => result = SwappedCount

C30_Witness ==
    /\ Done
    /\ AllOpaque
    /\ OptHShift(options) > 0
    /\ ~options.includeAA
    /\ \E p \in Pixels : AboveMax(p) /\ AntiAliased(p)
    /\ \E p \in Pixels : AboveMax(p) /\ ~AntiAliased(p)
    /\ \E p \in Pixels : DirectDelta(p) # 0 /\ DirectDelta(p) # DeltaOf(p)
    /\ result > 0
    /\ result = SwappedCount

====
